---- MODULE Spec2Model ----
(***************************************************************************)
(* Chronicle AI: the episode processing pipeline of llm_client.py          *)
(* (process_entry and the generators it uses), the conflict analyzer of    *)
(* conflict.py and the response cache of director.py.                      *)
(*                                                                         *)
(* Representation of Python values:                                        *)
(*   Optional[T]     <<>> is None, <<v>> is the value v                    *)
(*   str (prose)     a TLA+ string; Len gives its character count          *)
(*   title, logline  a sequence of words (split() of the Python string)    *)
(*   raw_text        a sequence of lower-case tokens, " " for whitespace   *)
(*   float score     hundredths (0.5 is 50)                                *)
(*   JSON value      [k |-> kind, v |-> payload]                           *)
(***************************************************************************)
EXTENDS Integers, Sequences, FiniteSets, TLC

VARIABLES entry, pc, force, pre, calls, cache, combined, nCalls,
          hist, nGen, workers, repo, seg

vars == <<entry, pc, force, pre, calls, cache, combined, nCalls,
          hist, nGen, workers, repo, seg>>

\* what the direct generator calls, the concurrent callers, the repository
\* and the segmenter add to the state; process_entry on one entry leaves it
\* alone
others == <<hist, nGen, workers, repo, seg>>

\* Number of process_entry calls one behaviour makes.
MaxCalls == 2

----------------------------------------------------------------------------
\* Python values

None == <<>>

Some(v) == <<v>>

\* dict.get(key, default) on a dict whose absent keys are None
Get(opt, default) == IF opt = None THEN default ELSE opt[1]

\* truth value of an Optional[str] field holding prose
TruthyStr(opt) == opt # None /\ opt[1] # ""

\* truth value of an Optional field holding a word sequence
TruthyWords(opt) == opt # None /\ opt[1] # <<>>

\* s[:n]
Take(s, n) == IF Len(s) <= n THEN s ELSE SubSeq(s, 1, n)

----------------------------------------------------------------------------
\* models.py

Archetypes ==
    {"person vs self", "person vs person", "person vs environment",
     "person vs system", "person vs time", "none"}

\* ConflictAnalysis(...): a plain dataclass, no validation in the constructor
ConflictAnalysis(internal, external, tension, archetype, central) ==
    [internal_conflicts |-> internal, external_conflicts |-> external,
     tension_level |-> tension, archetype |-> archetype,
     central_conflict |-> central]

\* ConflictAnalysis(): the field defaults
DefaultConflict == ConflictAnalysis(<<>>, <<>>, 1, "none", "")

\* Entry(raw_text=t): the derived fields at their defaults
NewEntry(t) ==
    [raw_text |-> t, conflict_data |-> None, narrative_text |-> None,
     title |-> None, title_options |-> <<>>, logline |-> None,
     synopsis |-> None, keywords |-> <<>>]

----------------------------------------------------------------------------
\* raw diary text

RawTexts ==
    {<<>>, <<"long", "walk">>, <<"scared", "of", "the", "deadline">>}

\* str.strip() on a token sequence: drops leading and trailing whitespace
RECURSIVE LStrip(_)
LStrip(s) == IF s # <<>> /\ Head(s) = " " THEN LStrip(Tail(s)) ELSE s

RECURSIVE RStrip(_)
RStrip(s) ==
    IF s # <<>> /\ s[Len(s)] = " " THEN RStrip(SubSeq(s, 1, Len(s) - 1)) ELSE s

Strip(s) == RStrip(LStrip(s))

\* the blank test without `not text.strip()`: only the empty text is blank
IsEmptyText(s) == s = <<>>

\* `not text or not text.strip()`
IsBlank(s) == s = <<>> \/ Strip(s) = <<>>

\* any(w in lower_text for w in words); the texts of the model hold every
\* keyword they contain as a whole lower-case token
AnyIn(words, text) == \E i \in 1..Len(text) : text[i] \in words

\* detect_mood with the stressful test moved in front of the others
DetectMoodStressFirst(raw) ==
    IF AnyIn({"stress", "deadline", "fast", "rushed", "panic"}, raw)
    THEN "stressful"
    ELSE IF AnyIn({"productive", "finished", "accomplished", "work", "busy"}, raw)
    THEN "productive"
    ELSE IF AnyIn({"sad", "reflective", "thought", "lonely", "missing"}, raw)
    THEN "reflective"
    ELSE IF AnyIn({"relax", "chill", "calm", "peace", "quiet"}, raw)
    THEN "relaxed"
    ELSE IF AnyIn({"mystery", "weird", "strange", "dark", "unknown"}, raw)
    THEN "mysterious"
    ELSE "neutral"

\* detect_mood
DetectMood(raw) ==
    IF AnyIn({"productive", "finished", "accomplished", "work", "busy"}, raw)
    THEN "productive"
    ELSE IF AnyIn({"sad", "reflective", "thought", "lonely", "missing"}, raw)
    THEN "reflective"
    ELSE IF AnyIn({"stress", "deadline", "fast", "rushed", "panic"}, raw)
    THEN "stressful"
    ELSE IF AnyIn({"relax", "chill", "calm", "peace", "quiet"}, raw)
    THEN "relaxed"
    ELSE IF AnyIn({"mystery", "weird", "strange", "dark", "unknown"}, raw)
    THEN "mysterious"
    ELSE "neutral"

----------------------------------------------------------------------------
\* llm_utils.py: what _make_request returns.
\*   kind   "unavailable" (None: request failed or timed out), "empty" (""),
\*          "text"
\*   prose  the text has words outside its JSON part
\*   fence  "json" (```json ... ```), "plain" (``` ... ```) or "none"
\*   body   the JSON-looking part: k is "none" (no brace or bracket at all),
\*          "invalid" (delimiters present, not JSON), "double" ({{ ... }}),
\*          "object" or "array"; v is the parsed value, or the text when k is
\*          "none"

Text(prose, fence, k, v) ==
    [kind |-> "text", prose |-> prose, fence |-> fence,
     body |-> [k |-> k, v |-> v]]

Unavailable(v) ==
    [kind |-> "unavailable", prose |-> FALSE, fence |-> "none",
     body |-> [k |-> "none", v |-> v]]

EmptyText(v) ==
    [kind |-> "empty", prose |-> FALSE, fence |-> "none",
     body |-> [k |-> "none", v |-> v]]

\* `if result:` left out: every answer counts as a result
AnyAnswer(resp) == TRUE

\* `if result:`
HasResult(resp) == resp.kind = "text"

\* JSON numbers and what is not a number
Num(n) == [k |-> "num", v |-> n]

Null == [k |-> "null", v |-> 0]

NotANumber == [k |-> "str", v |-> 0]

----------------------------------------------------------------------------
\* conflict.py

\* json.loads of the whole response, without the markdown fence handling
LoadsWhole(resp) ==
    IF resp.fence # "none" \/ resp.prose
    THEN [k |-> "invalid", v |-> resp.body.v]
    ELSE IF resp.body.k \in {"object", "array"} THEN resp.body
    ELSE [k |-> "invalid", v |-> resp.body.v]

\* the markdown fence handling of analyze_entry followed by json.loads:
\* inside a fence only the fenced part is parsed, otherwise the whole text
LoadsUnfenced(resp) ==
    IF resp.fence = "none" /\ resp.prose
    THEN [k |-> "invalid", v |-> resp.body.v]
    ELSE IF resp.body.k \in {"object", "array"} THEN resp.body
    ELSE [k |-> "invalid", v |-> resp.body.v]

\* _fallback_analysis with `if analysis.internal_conflicts` as its first
\* test: the person vs self rule also fires when an external cue was found
FallbackSelfFirst(text) ==
    LET uncertain == AnyIn({"doubt", "unsure", "scared", "fear", "worried",
                            "think if"}, text)
        emotional == AnyIn({"sad", "depressed", "lonely"}, text)
        pressure == AnyIn({"deadline", "work", "boss", "client", "finish"}, text)
        hurdle == AnyIn({"traffic", "broken", "rain", "storm"}, text)
        internal == (IF uncertain THEN <<"uncertainty">> ELSE <<>>)
                    \o (IF emotional THEN <<"emotional struggle">> ELSE <<>>)
        external == (IF pressure THEN <<"pressure">> ELSE <<>>)
                    \o (IF hurdle THEN <<"environmental hurdle">> ELSE <<>>)
        hinted == IF hurdle THEN "person vs environment"
                  ELSE IF pressure THEN "person vs time" ELSE "none"
    IN  IF internal # <<>>
        THEN ConflictAnalysis(internal, external, 4, "person vs self",
                              "Navigating daily challenges.")
        ELSE IF external # <<>>
        THEN ConflictAnalysis(internal, external, 6, hinted,
                              "Navigating daily challenges.")
        ELSE ConflictAnalysis(internal, external, 1, hinted,
                              "Navigating daily challenges.")

\* ConflictDetector._fallback_analysis
FallbackAnalysis(text) ==
    LET uncertain == AnyIn({"doubt", "unsure", "scared", "fear", "worried",
                            "think if"}, text)
        emotional == AnyIn({"sad", "depressed", "lonely"}, text)
        pressure == AnyIn({"deadline", "work", "boss", "client", "finish"}, text)
        hurdle == AnyIn({"traffic", "broken", "rain", "storm"}, text)
        internal == (IF uncertain THEN <<"uncertainty">> ELSE <<>>)
                    \o (IF emotional THEN <<"emotional struggle">> ELSE <<>>)
        external == (IF pressure THEN <<"pressure">> ELSE <<>>)
                    \o (IF hurdle THEN <<"environmental hurdle">> ELSE <<>>)
        hinted == IF hurdle THEN "person vs environment"
                  ELSE IF pressure THEN "person vs time" ELSE "none"
    IN  IF internal # <<>> /\ external = <<>>
        THEN ConflictAnalysis(internal, external, 4, "person vs self",
                              "Navigating daily challenges.")
        ELSE IF external # <<>>
        THEN ConflictAnalysis(internal, external, 6, hinted,
                              "Navigating daily challenges.")
        ELSE ConflictAnalysis(internal, external, 1, hinted,
                              "Navigating daily challenges.")

\* ConflictDetector.analyze_entry after the backend answered resp:
\* [raised |-> an exception left the function, value |-> the profile returned]
AnalyzeEntry(raw, resp) ==
    IF IsBlank(raw)
    THEN [raised |-> FALSE, value |-> DefaultConflict, called |-> FALSE]
    ELSE IF ~HasResult(resp)
    THEN [raised |-> FALSE, value |-> FallbackAnalysis(raw), called |-> TRUE]
    ELSE LET data == LoadsUnfenced(resp)
         IN  IF data.k = "invalid"
             THEN \* json.JSONDecodeError, caught
                  [raised |-> FALSE, value |-> FallbackAnalysis(raw),
                   called |-> TRUE]
             ELSE IF data.k = "array"
             THEN \* list.get: AttributeError, not in the except clause
                  [raised |-> TRUE, value |-> DefaultConflict, called |-> TRUE]
             ELSE LET t == Get(data.v.tension, Num(1))
                  IN  IF t.k = "null"
                      THEN \* int(None): TypeError, not in the except clause
                           [raised |-> TRUE, value |-> DefaultConflict,
                            called |-> TRUE]
                      ELSE IF t.k = "str"
                      THEN \* int("high"): ValueError, caught
                           [raised |-> FALSE, value |-> FallbackAnalysis(raw),
                            called |-> TRUE]
                      ELSE [raised |-> FALSE, called |-> TRUE,
                            value |-> ConflictAnalysis(
                                Get(data.v.internal, <<>>),
                                Get(data.v.external, <<>>),
                                t.v,
                                Get(data.v.archetype, "none"),
                                Get(data.v.central_conflict, ""))]

\* the JSON object the conflict prompt asks for
ConflictJson(internal, external, tension, archetype, central) ==
    [internal |-> internal, external |-> external, tension |-> tension,
     archetype |-> archetype, central_conflict |-> central]

GoodConflictJson ==
    ConflictJson(Some(<<"doubt">>), Some(<<"deadline">>), Some(Num(7)),
                 Some("person vs time"), Some("Running out of time."))

\* backend answers to the conflict prompt
ConflictResponses ==
    {Unavailable(GoodConflictJson), EmptyText(GoodConflictJson),
     Text(TRUE, "none", "none", GoodConflictJson),
     Text(TRUE, "json", "object", GoodConflictJson),
     Text(FALSE, "none", "object",
          ConflictJson(None, None, Some(Num(15)), Some("person vs fate"), None)),
     Text(FALSE, "none", "object",
          ConflictJson(None, None, Some(Null), None, None)),
     Text(FALSE, "none", "object",
          ConflictJson(None, None, Some(NotANumber), None, None)),
     Text(FALSE, "none", "array", GoodConflictJson)}

----------------------------------------------------------------------------
\* style_guide.py, with the built-in default styles of _load_config

\* Visual directions enhance_prompt can pick for a mood it has no mapping for
\* (random.choice over camera_angles, lighting and atmospheres).
NumStyleVariants == 2

\* enhance_prompt: the direction written into the prompt. Only "neutral" has
\* a mapping; any other mood gets a random direction.
StyleDirections(mood) ==
    IF mood = "neutral" THEN {0} ELSE 1..NumStyleVariants

\* add_sensory_layer threshold: shorter texts are returned unchanged
MinSensoryLen == 10

SensoryAddition ==
    "  Underneath it all, a distant hum persists. There's a cool breeze in the air, accompanied by the faint scent of fresh air."

\* add_sensory_layer, each default sensory list having one element
AddSensoryLayer(text) ==
    IF text = "" \/ Len(text) < MinSensoryLen THEN text
    ELSE text \o SensoryAddition

----------------------------------------------------------------------------
\* director.py: ComponentCache, a dict from cache key to value.
\* cache.full and cache.narrative hold the keys "full_process_<hash>" and
\* "narrative_<hash>"; a key is the content of the prompt that is hashed
\* (two different prompts are taken to have different hashes).

CacheGet(c, key) == IF key \in DOMAIN c THEN Some(c[key]) ELSE None

CacheSet(c, key, value) ==
    [k \in DOMAIN c \cup {key} |-> IF k = key THEN value ELSE c[k]]

----------------------------------------------------------------------------
\* llm_client.py: generate_narrative

\* the conflict_context lines of the narrative prompt (archetype is not used)
ConflictContext(conflict) ==
    IF conflict = None THEN None
    ELSE Some(<<conflict[1].central_conflict, conflict[1].internal_conflicts,
                conflict[1].external_conflicts, conflict[1].tension_level>>)

\* the narrative prompt, as far as its hash depends on the inputs
NarrativePrompt(raw, conflict, direction) ==
    <<raw, ConflictContext(conflict), direction>>

NoContent == "No diary content provided for this day."

\* generate_narrative(raw_text, conflict_data=conflict) with the prompt
\* direction chosen by the style guide and the backend answering resp.
\* called: a backend request was made; store: the cache after the call.
GenerateNarrative(raw, conflict, direction, c, resp) ==
    IF IsBlank(raw)
    THEN [raised |-> FALSE, value |-> NoContent, called |-> FALSE, store |-> c]
    ELSE LET key == NarrativePrompt(raw, conflict, direction)
             cached == CacheGet(c, key)
         IN  IF TruthyStr(cached)
             THEN [raised |-> FALSE, value |-> cached[1], called |-> FALSE,
                   store |-> c]
             ELSE IF HasResult(resp)
             THEN LET final == AddSensoryLayer(resp.body.v)
                  IN  [raised |-> FALSE, value |-> final, called |-> TRUE,
                       store |-> CacheSet(c, key, final)]
             ELSE \* logger.info(...): the module defines no `logger`,
                  \* NameError
                  [raised |-> TRUE, value |-> "", called |-> TRUE, store |-> c]

\* backend answers to the narrative prompt
NarrativeResponses ==
    {Unavailable(""), EmptyText(""),
     Text(TRUE, "none", "none", "She walks home under a grey sky."),
     Text(TRUE, "none", "none", "He waits.")}

----------------------------------------------------------------------------
\* llm_client.py: generate_title

Quotes == {"\"", "'"}

\* str.strip(chars) on a token sequence
RECURSIVE LStripSet(_, _)
LStripSet(s, cs) ==
    IF s # <<>> /\ Head(s) \in cs THEN LStripSet(Tail(s), cs) ELSE s

RECURSIVE RStripSet(_, _)
RStripSet(s, cs) ==
    IF s # <<>> /\ s[Len(s)] \in cs
    THEN RStripSet(SubSeq(s, 1, Len(s) - 1), cs) ELSE s

StripSet(s, cs) == RStripSet(LStripSet(s, cs), cs)

\* result.strip().strip('"\'').strip()
TrimTitle(s) == StripSet(StripSet(StripSet(s, {" "}), Quotes), {" "})

\* str.split(): the words of a token sequence
Split(s) == SelectSeq(s, LAMBDA w : w # " ")

\* a response longer than this many words is cut
TitleCutAbove == 8

\* the number of words kept when the title is cut
TitleKeep == 7

Untitled == <<"Untitled", "Episode">>

\* generate_title(text) where blank says `not text or not text.strip()`
GenerateTitle(blank, resp) ==
    IF blank THEN [value |-> Untitled, called |-> FALSE]
    ELSE IF HasResult(resp)
    THEN LET words == Split(TrimTitle(resp.body.v))
         IN  [value |-> IF Len(words) > TitleCutAbove
                        THEN Take(words, TitleKeep) ELSE words,
              called |-> TRUE]
    ELSE [value |-> Untitled, called |-> TRUE]

\* backend answers to the single-title prompt
TitleResponses ==
    {Unavailable(<<>>),
     Text(TRUE, "none", "none", <<"\"", "Long", "Road", "Home", "\"">>),
     Text(TRUE, "none", "none",
          <<"a", "b", "c", "d", "e", "f", "g", "h", "i">>),
     Text(TRUE, "none", "none", <<"\"", "\"">>)}

----------------------------------------------------------------------------
\* llm_client.py: generate_title_options

\* one element of a JSON list of title options; an absent key is None
Opt(isdict, title, pattern, score) ==
    [isdict |-> isdict, title |-> title, pattern |-> pattern, score |-> score]

\* the score an option gets when the backend gave none (hundredths)
DefaultScore == 50

\* the score of the option for blank text (hundredths)
UntitledScore == 100

\* re.search(r'\[.*\]', result, re.DOTALL) followed by json.loads: the list
\* found in the text, or "invalid" when nothing matches or parses
SearchList(resp) ==
    IF resp.body.k = "array" THEN resp.body
    ELSE [k |-> "invalid", v |-> <<>>]

\* float(opt.get("score", 0.5)) raises on a value that is no number
ScoreFails(opt) == opt.score # None /\ opt.score[1].k # "num"

\* the loop without its `isinstance(opt, dict) and "title" in opt` test
AllOptions(options) == options

\* the "Normalize and validate" loop over the parsed list
RECURSIVE ValidOptions(_)
ValidOptions(options) ==
    IF options = <<>> THEN <<>>
    ELSE LET opt == Head(options)
         IN  IF opt.isdict /\ opt.title # None
             THEN <<Opt(TRUE, Some(StripSet(StripSet(opt.title[1], {" "}), Quotes)),
                        Some(Get(opt.pattern, "Unknown")),
                        Some(Get(opt.score, Num(DefaultScore))))>>
                  \o ValidOptions(Tail(options))
             ELSE ValidOptions(Tail(options))

\* generate_title_options(text): resp answers the options prompt, resp2 the
\* single-title prompt of the fallback. calls: the requests made, in order.
GenerateTitleOptions(blank, resp, resp2) ==
    IF blank
    THEN [value |-> <<Opt(TRUE, Some(Untitled), Some("Default"),
                          Some(Num(UntitledScore)))>>,
          calls |-> <<>>]
    ELSE LET found == IF HasResult(resp) THEN SearchList(resp)
                      ELSE [k |-> "invalid", v |-> <<>>]
             failed == found.k = "invalid"
                       \/ \E i \in 1..Len(found.v) :
                             /\ found.v[i].isdict
                             /\ found.v[i].title # None
                             /\ ScoreFails(found.v[i])
             valid == IF failed THEN <<>> ELSE ValidOptions(found.v)
         IN  IF valid # <<>>
             THEN [value |-> valid, calls |-> <<"title_options">>]
             ELSE LET t == GenerateTitle(blank, resp2)
                  IN  [value |-> <<Opt(TRUE, Some(t.value), Some("Direct"),
                                       Some(Num(DefaultScore)))>>,
                       calls |-> <<"title_options", "title">>]

OptA == Opt(TRUE, Some(<<"Crossroads">>), Some("Single-word"), Some(Num(90)))

OptB == Opt(TRUE, Some(<<"The", "One", "Where">>), Some("Friends-style"),
            Some(Num(90)))

OptNoScore == Opt(TRUE, Some(<<"Aftermath">>), None, None)

OptLow == Opt(TRUE, Some(<<"Pilot">>), Some("Single-word"), Some(Num(30)))

OptBadScore == Opt(TRUE, Some(<<"Pilot">>), None, Some(NotANumber))

NotADict == Opt(FALSE, None, None, None)

\* backend answers to the title-options prompt
TitleOptionsResponses ==
    {Unavailable(<<>>),
     Text(TRUE, "none", "none", <<>>),
     Text(TRUE, "none", "array", <<OptA, OptB>>),
     Text(FALSE, "none", "array", <<OptLow, OptNoScore>>),
     Text(FALSE, "none", "array", <<OptA, OptBadScore>>),
     Text(FALSE, "none", "array", <<NotADict>>),
     Text(FALSE, "none", "array", <<>>)}

\* max(options, key=lambda x: x.get('score', 0)): the first option of
\* maximal score
ScoreKey(opt) == Get(opt.score, Num(0)).v

\* max() returning the last of several maximal options instead of the first
LastBestOption(options) ==
    options[CHOOSE i \in 1..Len(options) :
                /\ \A j \in 1..Len(options) : ScoreKey(options[j]) <= ScoreKey(options[i])
                /\ \A j \in (i + 1)..Len(options) : ScoreKey(options[j]) < ScoreKey(options[i])]

BestOption(options) ==
    options[CHOOSE i \in 1..Len(options) :
                /\ \A j \in 1..Len(options) : ScoreKey(options[j]) <= ScoreKey(options[i])
                /\ \A j \in 1..(i - 1) : ScoreKey(options[j]) < ScoreKey(options[i])]

----------------------------------------------------------------------------
\* llm_client.py: generate_synopsis

\* keywords[:5]
KeywordCap == 5

EmptySynopsis == [logline |-> <<>>, synopsis |-> "", keywords |-> <<>>]

\* re.search(r'{{.*}}', result, re.DOTALL): the pattern is not an f-string,
\* so it asks for two literal opening and two literal closing braces
SearchDoubleBraces(resp) == resp.body.k = "double"

\* json.loads of a text that starts with "{{" never succeeds
LoadsDoubleBraced(resp) == [k |-> "invalid", v |-> resp.body.v]

\* generate_synopsis(text)
GenerateSynopsis(blank, resp) ==
    IF blank THEN [value |-> EmptySynopsis, called |-> FALSE]
    ELSE IF HasResult(resp) /\ SearchDoubleBraces(resp)
    THEN LET data == LoadsDoubleBraced(resp)
         IN  IF data.k = "object"
             THEN [value |-> [logline |-> Get(data.v.logline, <<>>),
                              synopsis |-> Get(data.v.synopsis, ""),
                              keywords |-> Take(Get(data.v.keywords, <<>>),
                                                KeywordCap)],
                   called |-> TRUE]
             ELSE [value |-> EmptySynopsis, called |-> TRUE]
    ELSE [value |-> EmptySynopsis, called |-> TRUE]

\* the JSON object the synopsis prompt asks for
Metadata(logline, synopsis, keywords) ==
    [logline |-> logline, synopsis |-> synopsis, keywords |-> keywords]

GoodMetadata ==
    Metadata(Some(<<"A", "secret", "meeting">>), Some("They discover a hidden agenda."),
             Some(<<"secret", "truth", "team", "mystery", "revelation">>))

SevenKeywords ==
    Metadata(Some(<<"One", "day">>), Some("Short summary."),
             Some(<<"a", "b", "c", "d", "e", "f", "g">>))

\* backend answers to the synopsis prompt
SynopsisResponses ==
    {Unavailable(GoodMetadata),
     Text(TRUE, "none", "none", GoodMetadata),
     Text(FALSE, "none", "object", GoodMetadata),
     Text(FALSE, "none", "object", SevenKeywords),
     Text(FALSE, "none", "double", GoodMetadata)}

----------------------------------------------------------------------------
\* llm_client.py: the combined strategy

\* a JSON value under one key of the combined document: k is "missing",
\* "object", "str", "array" or "other" (a value of another JSON type)
Json(k, v) == [k |-> k, v |-> v]

\* the conflict object of the combined document; an absent key is None
ConflictDoc(internal, external, tension, archetype, central) ==
    [internal_conflicts |-> internal, external_conflicts |-> external,
     tension_level |-> tension, archetype |-> archetype,
     central_conflict |-> central]

NoConflictKeys == ConflictDoc(None, None, None, None, None)

NoMetadataKeys == Metadata(None, None, None)

\* the parsed combined document
Document(conflict, narrative, titles, metadata) ==
    [conflict |-> conflict, narrative |-> narrative, titles |-> titles,
     metadata |-> metadata]

\* {}
EmptyDocument ==
    Document(Json("missing", NoConflictKeys), Json("missing", ""),
             Json("missing", <<>>), Json("missing", NoMetadataKeys))

\* truth value of a parsed document (`if cached:`): a dict with a key
DocTruthy(data) ==
    \/ data.conflict.k # "missing"
    \/ data.narrative.k # "missing"
    \/ data.titles.k # "missing"
    \/ data.metadata.k # "missing"

\* "# 1. Conflict": c_data.get on a value that is no dict raises
SetConflict(e, data) ==
    IF data.conflict.k \notin {"missing", "object"}
    THEN [raised |-> TRUE, entry |-> e]
    ELSE LET c == data.conflict.v
         IN  [raised |-> FALSE,
              entry |-> [e EXCEPT !.conflict_data =
                  Some(ConflictAnalysis(Get(c.internal_conflicts, <<>>),
                                        Get(c.external_conflicts, <<>>),
                                        Get(c.tension_level, 1),
                                        Get(c.archetype, "none"),
                                        Get(c.central_conflict, "")))]]

\* "# 2. Narrative": written only when the document has a non-empty one;
\* add_sensory_layer raises on a value that has no len()
SetNarrative(e, data) ==
    IF data.narrative.k = "missing" THEN [raised |-> FALSE, entry |-> e]
    ELSE IF data.narrative.k # "str" THEN [raised |-> TRUE, entry |-> e]
    ELSE IF data.narrative.v = "" THEN [raised |-> FALSE, entry |-> e]
    ELSE [raised |-> FALSE,
          entry |-> [e EXCEPT !.narrative_text =
                         Some(AddSensoryLayer(data.narrative.v))]]

\* "# 3. Titles": written only when the document has a non-empty list; the
\* list is stored as parsed, then max() calls .get on every element
SetTitles(e, data) ==
    IF data.titles.k = "missing" \/ data.titles.v = <<>>
    THEN [raised |-> FALSE, entry |-> e]
    ELSE LET titles == data.titles.v
             stored == [e EXCEPT !.title_options = titles]
         IN  IF \E i \in 1..Len(titles) : ~titles[i].isdict
             THEN [raised |-> TRUE, entry |-> stored]
             ELSE [raised |-> FALSE,
                   entry |-> [stored EXCEPT !.title = BestOption(titles).title]]

\* "# 4. Metadata": meta.get on a value that is no dict raises
SetMetadata(e, data) ==
    IF data.metadata.k \notin {"missing", "object"}
    THEN [raised |-> TRUE, entry |-> e]
    ELSE LET meta == data.metadata.v
         IN  [raised |-> FALSE,
              entry |-> [e EXCEPT !.logline = Some(Get(meta.logline, <<>>)),
                                  !.synopsis = Some(Get(meta.synopsis, "")),
                                  !.keywords = Get(meta.keywords, <<>>)]]

\* _populate_entry_from_data; lines 377-403 of _process_entry_full repeat
\* the same four assignments for a freshly parsed document. They run in
\* program order, and an exception leaves the earlier assignments in place.
PopulateEntryFromData(e, data) ==
    LET s1 == SetConflict(e, data)
        s2 == SetNarrative(s1.entry, data)
        s3 == SetTitles(s2.entry, data)
        s4 == SetMetadata(s3.entry, data)
    IN  IF s1.raised THEN s1
        ELSE IF s2.raised THEN s2
        ELSE IF s3.raised THEN s3
        ELSE s4

\* the combined prompt, as far as its hash depends on the inputs
FullPrompt(raw, direction) == <<raw, direction>>

\* re.search(r'\{.*\}', result, re.DOTALL) followed by json.loads
SearchObject(resp) ==
    IF resp.body.k = "object" THEN resp.body
    ELSE [k |-> "invalid", v |-> resp.body.v]

\* _process_entry_full(entry) with the prompt direction chosen by the style
\* guide and the backend answering resp.
\* how: "hit" (served from the cache), "fresh" (parsed and applied),
\* "failed" (raised); doc: the document the entry was populated from
ProcessEntryFull(e, direction, c, resp) ==
    LET key == FullPrompt(e.raw_text, direction)
        cached == CacheGet(c, key)
    IN  IF cached # None /\ DocTruthy(cached[1])
        THEN LET r == PopulateEntryFromData(e, cached[1])
             IN  [how |-> IF r.raised THEN "failed" ELSE "hit",
                  entry |-> r.entry, store |-> c, called |-> FALSE,
                  doc |-> cached]
        ELSE IF ~HasResult(resp)
        THEN [how |-> "failed", entry |-> e, store |-> c, called |-> TRUE,
              doc |-> None]
        ELSE LET data == SearchObject(resp)
             IN  IF data.k = "invalid"
                 THEN [how |-> "failed", entry |-> e, store |-> c,
                       called |-> TRUE, doc |-> None]
                 ELSE LET r == PopulateEntryFromData(e, data.v)
                      IN  IF r.raised
                          THEN [how |-> "failed", entry |-> r.entry,
                                store |-> c, called |-> TRUE, doc |-> None]
                          ELSE [how |-> "fresh", entry |-> r.entry,
                                store |-> CacheSet(c, key, data.v),
                                called |-> TRUE, doc |-> Some(data.v)]

GoodConflictDoc ==
    ConflictDoc(Some(<<"doubt">>), Some(<<"deadline">>), Some(7),
                Some("person vs time"), Some("Running out of time."))

GoodDocument ==
    Document(Json("object", GoodConflictDoc),
             Json("str", "The clock ticks as she writes."),
             Json("array", <<OptLow, OptA, OptB>>),
             Json("object", GoodMetadata))

\* a complete document whose values are outside what the prompt asks for
LooseDocument ==
    Document(Json("object", ConflictDoc(None, None, Some(15),
                                        Some("person vs fate"), None)),
             Json("str", "Rain falls on the empty street."),
             Json("array", <<OptNoScore>>),
             Json("object", SevenKeywords))

\* backend answers to the combined prompt
FullResponses ==
    {Unavailable(EmptyDocument), EmptyText(EmptyDocument),
     Text(TRUE, "none", "none", EmptyDocument),
     Text(FALSE, "none", "invalid", EmptyDocument),
     Text(TRUE, "none", "object", GoodDocument),
     Text(FALSE, "json", "object", LooseDocument),
     Text(FALSE, "none", "object", EmptyDocument),
     Text(FALSE, "none", "object",
          [GoodDocument EXCEPT !.conflict = Json("other", NoConflictKeys)]),
     Text(FALSE, "none", "object",
          [GoodDocument EXCEPT !.titles = Json("array", <<OptA, NotADict>>)]),
     Text(FALSE, "none", "object",
          [GoodDocument EXCEPT !.metadata = Json("other", NoMetadataKeys)])}

----------------------------------------------------------------------------
\* llm_client.py: process_entry and the ensure steps

\* `if not entry.conflict_data` (a ConflictAnalysis object is always true)
NeedsConflict(e) == e.conflict_data = None

\* ensure_narrative without its guard: the narrative is always regenerated
NeedsNarrativeUnguarded(e) == TRUE

\* `if not entry.narrative_text`
NeedsNarrative(e) == ~TruthyStr(e.narrative_text)

\* `if not entry.title or not entry.title_options`
NeedsTitle(e) == ~TruthyWords(e.title) \/ e.title_options = <<>>

\* `if not entry.logline or not entry.synopsis or not entry.keywords`
NeedsSynopsis(e) ==
    ~TruthyWords(e.logline) \/ ~TruthyStr(e.synopsis) \/ e.keywords = <<>>

\* is_missing_all with `or` between the four tests instead of `and`
IsMissingAny(e, f) ==
    f \/ (\/ ~TruthyStr(e.narrative_text)
          \/ e.conflict_data = None
          \/ ~TruthyWords(e.title)
          \/ ~TruthyStr(e.synopsis))

\* is_missing_all
IsMissingAll(e, f) ==
    f \/ (/\ ~TruthyStr(e.narrative_text)
          /\ e.conflict_data = None
          /\ ~TruthyWords(e.title)
          /\ ~TruthyStr(e.synopsis))

\* the title and synopsis prompts built from `entry.raw_text` alone
TextSourceRaw(e) == "raw"

\* `entry.narrative_text or entry.raw_text`: which text the title and
\* synopsis prompts are built from
TextSource(e) == IF TruthyStr(e.narrative_text) THEN "narrative" ELSE "raw"

\* `not text or not text.strip()` for that text (no narrative of the model
\* is whitespace only)
TextBlank(e) == IF TruthyStr(e.narrative_text) THEN FALSE ELSE IsBlank(e.raw_text)

\* ensure_title without `and not entry.title`: an existing title is replaced
TitleAlwaysBest(e, options) ==
    IF options # <<>> THEN Some(BestOption(options).title[1]) ELSE e.title

\* `if options and not entry.title`: the title ensure_title leaves
TitleAfter(e, options) ==
    IF options # <<>> /\ ~TruthyWords(e.title)
    THEN Some(BestOption(options).title[1])
    ELSE e.title

\* a backend request in the log of the running call
Call(kind, uses) == [kind |-> kind, uses |-> uses]

RECURSIVE CallsOf(_, _)
CallsOf(kinds, uses) ==
    IF kinds = <<>> THEN <<>>
    ELSE <<Call(Head(kinds), uses)>> \o CallsOf(Tail(kinds), uses)

NoCombined == [how |-> "none", doc |-> None]

\* no caller is inside _process_entry_full on another thread
NoWorkers == <<>>

\* most rows the diary_entries table gets
MaxRows == 2

\* the diary_entries table before any entry is created. rows maps an id to
\* its row, lastrowid is the AUTOINCREMENT counter; written, deleted and
\* last keep what the callers did: the entry each id was last written
\* with, the ids deleted, and the last call with its result.
NoRepository ==
    [rows |-> [id \in 1..MaxRows |-> <<>>], lastrowid |-> 0,
     written |-> [id \in 1..MaxRows |-> <<>>], deleted |-> {},
     last |-> [op |-> "none", id |-> <<>>, result |-> <<>>,
               raised |-> FALSE, untouched |-> TRUE]]

\* segment_diary_text has not been called
NoSegments == <<>>

\* rows written before the conflict, title_options and synopsis columns
\* existed carry a narrative and a title only
LegacyEntry(t) ==
    [NewEntry(t) EXCEPT !.narrative_text = Some("An old day, told plainly."),
                        !.title = Some(<<"Old", "Title">>)]

Init ==
    /\ entry \in {NewEntry(t) : t \in RawTexts}
                 \cup {LegacyEntry(t) : t \in RawTexts \ {<<>>}}
    /\ pc = "idle"
    /\ force = FALSE
    /\ pre = entry
    /\ calls = <<>>
    /\ cache = [full |-> <<>>, narrative |-> <<>>]
    /\ combined = NoCombined
    /\ nCalls = 0
    /\ hist = <<>>
    /\ nGen = 0
    /\ workers = NoWorkers
    /\ repo = NoRepository
    /\ seg = NoSegments

\* process_entry is entered with entry e0: is_missing_all picks the strategy
Begin(e0, f) ==
    /\ pc \in {"idle", "returned"}
    /\ nCalls < MaxCalls
    /\ nCalls' = nCalls + 1
    /\ entry' = e0
    /\ pre' = e0
    /\ force' = f
    /\ calls' = <<>>
    /\ combined' = NoCombined
    /\ pc' = IF IsMissingAll(e0, f) THEN "full" ELSE "ensure_conflict"
    /\ UNCHANGED <<cache, others>>

\* a caller runs process_entry(entry, force)
ProcessEntry == \E f \in BOOLEAN : Begin(entry, f)

\* the regenerate handlers clear narrative and title, then process_entry
Regenerate ==
    Begin([entry EXCEPT !.narrative_text = None, !.title = None], FALSE)

\* the try block of process_entry: _process_entry_full
CombinedAttempt ==
    /\ pc = "full"
    /\ \E resp \in FullResponses,
          d \in StyleDirections(DetectMood(entry.raw_text)) :
          LET r == ProcessEntryFull(entry, d, cache.full, resp)
          IN  /\ entry' = r.entry
              /\ cache' = [cache EXCEPT !.full = r.store]
              /\ calls' = IF r.called THEN Append(calls, Call("full", "raw"))
                          ELSE calls
              /\ combined' = [how |-> r.how, doc |-> r.doc]
              /\ pc' = IF r.how = "failed" THEN "ensure_conflict"
                       ELSE "returned"
    /\ UNCHANGED <<force, pre, nCalls, others>>

\* ensure_conflict_analysis
EnsureConflictAnalysis ==
    /\ pc = "ensure_conflict"
    /\ IF NeedsConflict(entry)
       THEN \E resp \in ConflictResponses :
               LET r == AnalyzeEntry(entry.raw_text, resp)
               IN  /\ calls' = IF r.called
                               THEN Append(calls, Call("conflict", "raw"))
                               ELSE calls
                   /\ IF r.raised
                      THEN pc' = "raised" /\ UNCHANGED entry
                      ELSE /\ pc' = "ensure_narrative"
                           /\ entry' = [entry EXCEPT
                                           !.conflict_data = Some(r.value)]
       ELSE pc' = "ensure_narrative" /\ UNCHANGED <<entry, calls>>
    /\ UNCHANGED <<force, pre, cache, combined, nCalls, others>>

\* ensure_narrative
EnsureNarrative ==
    /\ pc = "ensure_narrative"
    /\ IF NeedsNarrative(entry)
       THEN \E resp \in NarrativeResponses,
               d \in StyleDirections(DetectMood(entry.raw_text)) :
               LET r == GenerateNarrative(entry.raw_text, entry.conflict_data,
                                          d, cache.narrative, resp)
               IN  /\ calls' = IF r.called
                               THEN Append(calls, Call("narrative",
                                       IF entry.conflict_data = None
                                       THEN "raw" ELSE "raw+conflict"))
                               ELSE calls
                   /\ cache' = [cache EXCEPT !.narrative = r.store]
                   /\ IF r.raised
                      THEN pc' = "raised" /\ UNCHANGED entry
                      ELSE /\ pc' = "ensure_title"
                           /\ entry' = [entry EXCEPT
                                           !.narrative_text = Some(r.value)]
       ELSE pc' = "ensure_title" /\ UNCHANGED <<entry, calls, cache>>
    /\ UNCHANGED <<force, pre, combined, nCalls, others>>

\* ensure_title
EnsureTitle ==
    /\ pc = "ensure_title"
    /\ IF NeedsTitle(entry)
       THEN \E resp \in TitleOptionsResponses, resp2 \in TitleResponses :
               LET r == GenerateTitleOptions(TextBlank(entry), resp, resp2)
               IN  /\ calls' = calls \o CallsOf(r.calls, TextSource(entry))
                   /\ entry' = [entry EXCEPT
                                   !.title_options = r.value,
                                   !.title = TitleAfter(entry, r.value)]
       ELSE UNCHANGED <<entry, calls>>
    /\ pc' = "ensure_synopsis"
    /\ UNCHANGED <<force, pre, cache, combined, nCalls, others>>

\* ensure_synopsis, after which process_entry returns
EnsureSynopsis ==
    /\ pc = "ensure_synopsis"
    /\ IF NeedsSynopsis(entry)
       THEN \E resp \in SynopsisResponses :
               LET r == GenerateSynopsis(TextBlank(entry), resp)
               IN  /\ calls' = IF r.called
                               THEN Append(calls, Call("synopsis",
                                                       TextSource(entry)))
                               ELSE calls
                   /\ entry' = [entry EXCEPT
                                   !.logline = Some(r.value.logline),
                                   !.synopsis = Some(r.value.synopsis),
                                   !.keywords = r.value.keywords]
       ELSE UNCHANGED <<entry, calls>>
    /\ pc' = "returned"
    /\ UNCHANGED <<force, pre, cache, combined, nCalls, others>>

Next ==
    \/ ProcessEntry
    \/ Regenerate
    \/ CombinedAttempt
    \/ EnsureConflictAnalysis
    \/ EnsureNarrative
    \/ EnsureTitle
    \/ EnsureSynopsis

Spec == Init /\ [][Next]_vars

----------------------------------------------------------------------------
\* The generators and the conflict analyzer called directly, as the tests and
\* the ensure steps call them. hist holds the latest two calls, each with its
\* arguments, the backend answers it was given and what it returned.

\* Number of direct calls one behaviour makes.
MaxGenCalls == 2

\* diary texts given to the analyzer: empty, whitespace only, without any
\* cue, with internal cues only, with external cues, with both
DiaryTexts ==
    RawTexts \cup {<<" ">>, <<"lonely">>, <<"deadline", "in", "the", "rain">>}

\* texts given to the field generators
GenTexts == {<<>>, <<" ">>, <<"long", "walk">>, <<"scared", "of", "the", "deadline">>}

\* backend answers to the conflict prompt, the well-formed object bare and
\* in either kind of code fence included
AnalyzeResponses ==
    ConflictResponses
        \cup {Text(FALSE, "none", "object", GoodConflictJson),
              Text(FALSE, "plain", "object", GoodConflictJson),
              Text(FALSE, "json", "object", GoodConflictJson)}

\* a response of exactly eight words
EightWords == <<"a", "b", "c", "d", "e", "f", "g", "h">>

\* backend answers to the single-title prompt
TitleGenResponses ==
    TitleResponses
        \cup {Text(TRUE, "none", "none", EightWords),
              Text(TRUE, "none", "none", <<"'">> \o EightWords \o <<"'", " ">>)}

\* "max 15 words": the length the synopsis prompt asks of a logline
LoglineCap == 15

\* a logline of sixteen words
LongLogline ==
    <<"This", "is", "a", "very", "long", "logline", "that", "definitely",
      "has", "way", "more", "than", "fifteen", "words", "in", "it">>

\* backend answers to the synopsis prompt
SynopsisGenResponses ==
    SynopsisResponses
        \cup {Text(FALSE, "none", "object",
                   Metadata(Some(LongLogline), Some("Short summary."),
                            Some(<<"a", "b", "c", "d", "e", "f", "g">>)))}

\* the backend answers a call on text can get: every function returns on
\* blank text before it builds a prompt, so no answer is ever awaited
Answers(text, responses, none) ==
    IF IsBlank(text) THEN {none} ELSE responses

\* one direct call: requests counts the backend requests it made
GenCall(fn, text, prompt, resp, requests, raised, value) ==
    [fn |-> fn, text |-> text, prompt |-> prompt, resp |-> resp,
     requests |-> requests, raised |-> raised, value |-> value]

\* the call is appended to the log
Record(rec) ==
    /\ nGen < MaxGenCalls
    /\ nGen' = nGen + 1
    /\ hist' = IF hist = <<>> THEN <<rec>> ELSE <<hist[Len(hist)], rec>>

\* conflict_detector.analyze_entry(text)
CallAnalyzeEntry ==
    /\ \E text \in DiaryTexts :
       \E resp \in Answers(text, AnalyzeResponses, Unavailable(GoodConflictJson)) :
          LET r == AnalyzeEntry(text, resp)
          IN  Record(GenCall("analyze_entry", text, <<text>>, resp,
                             IF r.called THEN 1 ELSE 0, r.raised, r.value))
    /\ UNCHANGED <<entry, pc, force, pre, calls, cache, combined, nCalls,
                   workers, repo, seg>>

\* conflict_detector._fallback_analysis(text)
CallFallbackAnalysis ==
    /\ \E text \in DiaryTexts :
          Record(GenCall("_fallback_analysis", text, <<text>>, Unavailable(0),
                         0, FALSE, FallbackAnalysis(text)))
    /\ UNCHANGED <<entry, pc, force, pre, calls, cache, combined, nCalls,
                   workers, repo, seg>>

\* generate_narrative(text, conflict_data=conflict)
CallGenerateNarrative ==
    /\ \E text \in GenTexts, conflict \in {None, Some(DefaultConflict)} :
       \E resp \in Answers(text, NarrativeResponses, Unavailable("")) :
          \E d \in StyleDirections(DetectMood(text)) :
             LET r == GenerateNarrative(text, conflict, d, cache.narrative, resp)
             IN  /\ Record(GenCall("generate_narrative", text,
                                   NarrativePrompt(text, conflict, d), resp,
                                   IF r.called THEN 1 ELSE 0, r.raised,
                                   r.value))
                 /\ cache' = [cache EXCEPT !.narrative = r.store]
    /\ UNCHANGED <<entry, pc, force, pre, calls, combined, nCalls, workers,
                   repo, seg>>

\* generate_title(text)
CallGenerateTitle ==
    /\ \E text \in GenTexts :
       \E resp \in Answers(text, TitleGenResponses, Unavailable(<<>>)) :
          LET r == GenerateTitle(IsBlank(text), resp)
          IN  Record(GenCall("generate_title", text, <<text>>, resp,
                             IF r.called THEN 1 ELSE 0, FALSE, r.value))
    /\ UNCHANGED <<entry, pc, force, pre, calls, cache, combined, nCalls,
                   workers, repo, seg>>

\* generate_title_options(text)
CallGenerateTitleOptions ==
    /\ \E text \in GenTexts :
       \E resp \in Answers(text, TitleOptionsResponses, Unavailable(<<>>)),
          resp2 \in Answers(text, TitleResponses, Unavailable(<<>>)) :
          LET r == GenerateTitleOptions(IsBlank(text), resp, resp2)
          IN  Record(GenCall("generate_title_options", text, <<text>>, resp,
                             Len(r.calls), FALSE, r.value))
    /\ UNCHANGED <<entry, pc, force, pre, calls, cache, combined, nCalls,
                   workers, repo, seg>>

\* generate_synopsis(text)
CallGenerateSynopsis ==
    /\ \E text \in GenTexts :
       \E resp \in Answers(text, SynopsisGenResponses, Unavailable(GoodMetadata)) :
          LET r == GenerateSynopsis(IsBlank(text), resp)
          IN  Record(GenCall("generate_synopsis", text, <<text>>, resp,
                             IF r.called THEN 1 ELSE 0, FALSE, r.value))
    /\ UNCHANGED <<entry, pc, force, pre, calls, cache, combined, nCalls,
                   workers, repo, seg>>

\* texts given to detect_mood: the diary texts, and texts with keywords of
\* several moods
MoodTexts ==
    DiaryTexts \cup {<<"quiet", "deadline", "at", "work">>,
                     <<"a", "strange", "calm">>,
                     <<"panic", "in", "the", "dark">>}

\* detect_mood(text)
CallDetectMood ==
    /\ \E text \in MoodTexts :
          Record(GenCall("detect_mood", text, <<text>>, Unavailable(0), 0,
                         FALSE, DetectMood(text)))
    /\ UNCHANGED <<entry, pc, force, pre, calls, cache, combined, nCalls,
                   workers, repo, seg>>

GenInit ==
    /\ entry = NewEntry(<<>>)
    /\ pc = "idle"
    /\ force = FALSE
    /\ pre = entry
    /\ calls = <<>>
    /\ cache = [full |-> <<>>, narrative |-> <<>>]
    /\ combined = NoCombined
    /\ nCalls = 0
    /\ hist = <<>>
    /\ nGen = 0
    /\ workers = NoWorkers
    /\ repo = NoRepository
    /\ seg = NoSegments

GenNext ==
    \/ CallAnalyzeEntry
    \/ CallFallbackAnalysis
    \/ CallGenerateNarrative
    \/ CallGenerateTitle
    \/ CallGenerateTitleOptions
    \/ CallGenerateSynopsis
    \/ CallDetectMood

GenSpec == GenInit /\ [][GenNext]_vars

----------------------------------------------------------------------------
\* Properties

\* process_entry has finished, normally or with an exception
Finished == pc \in {"returned", "raised"}

\* the backend requests of the running call that have the given kind
CallsOfKind(kind) == {i \in 1..Len(calls) : calls[i].kind = kind}

\* conflict, narrative, title with options, and synopsis are all populated
Complete(e) ==
    /\ e.conflict_data # None
    /\ TruthyStr(e.narrative_text)
    /\ TruthyWords(e.title)
    /\ e.title_options # <<>>
    /\ TruthyStr(e.synopsis)

\* every derived field holds a value
FullyPopulated(e) ==
    /\ Complete(e)
    /\ TruthyWords(e.logline)
    /\ e.keywords # <<>>

\* conflict, narrative, title and synopsis are all absent
AllFourAbsent(e) ==
    /\ e.conflict_data = None
    /\ e.narrative_text \in {None, Some("")}
    /\ e.title \in {None, Some(<<>>)}
    /\ e.synopsis \in {None, Some("")}

\* C1: whenever the combined attempt of process_entry fails, process_entry
\* still returns with the entry Complete (conflict, narrative, title with
\* options and synopsis all populated) through the sequential fallback.
C1_FallbackCompletes ==
    (Finished /\ combined.how = "failed")
        => (pc = "returned" /\ Complete(entry))

\* C2: whatever the backend answers on each call, process_entry returns
\* normally: no exception escapes to its caller.
C2_NoExceptionEscapes == pc # "raised"

\* C3: process_entry(entry, force=False) on an entry whose derived fields are
\* all populated makes no backend call, attempts no combined request and
\* leaves every field unchanged, at every point of the call.
C3_PopulatedIsNoOp ==
    (pc # "idle" /\ ~force /\ FullyPopulated(pre))
        => (calls = <<>> /\ entry = pre /\ pc \notin {"full", "raised"}
            /\ combined.how = "none")

\* C3 witness: a second call without force has returned on an entry that the
\* first call left fully populated.
C3_Witness ==
    pc = "returned" /\ ~force /\ FullyPopulated(pre) /\ nCalls = 2

\* C4: after any process_entry call, if title is set and title_options is
\* non-empty, title is the title of the first maximum-score option.
C4_TitleIsBestOption ==
    (pc = "returned" /\ TruthyWords(entry.title) /\ entry.title_options # <<>>)
        => entry.title = BestOption(entry.title_options).title

\* C5: when the combined attempt fails, every derived field has, when the
\* sequential fallback starts, the value it had before the attempt.
C5_FailedAttemptWritesNothing ==
    (pc = "ensure_conflict" /\ combined.how = "failed") => entry = pre

\* C6: when the combined attempt succeeds, from a fresh response or from the
\* cache, all four groups are set on the entry from that one document.
C6_SuccessSetsAllGroups ==
    (pc = "returned" /\ combined.how \in {"hit", "fresh"})
        => LET d == combined.doc[1]
           IN  /\ entry.conflict_data # None
               /\ d.narrative.k = "str"
               /\ entry.narrative_text = Some(AddSensoryLayer(d.narrative.v))
               /\ d.titles.k = "array"
               /\ entry.title_options = d.titles.v
               /\ entry.title # None
               /\ entry.logline # None
               /\ entry.synopsis # None

\* C7 as stated: on a call without force that takes the sequential strategy,
\* every derived field that was present before the call has the same value
\* afterwards and no backend call is made for it.
C7_PresentFieldsKept ==
    (pc = "returned" /\ ~force /\ combined.how = "none")
        => /\ pre.conflict_data # None
                => (entry.conflict_data = pre.conflict_data
                    /\ CallsOfKind("conflict") = {})
           /\ TruthyStr(pre.narrative_text)
                => (entry.narrative_text = pre.narrative_text
                    /\ CallsOfKind("narrative") = {})
           /\ TruthyWords(pre.title) => entry.title = pre.title
           /\ pre.title_options # <<>>
                => (entry.title_options = pre.title_options
                    /\ CallsOfKind("title_options") = {})
           /\ TruthyWords(pre.logline) => entry.logline = pre.logline
           /\ TruthyStr(pre.synopsis) => entry.synopsis = pre.synopsis
           /\ pre.keywords # <<>> => entry.keywords = pre.keywords

\* C7 amended: on a call without force that takes the sequential strategy, an
\* ensure step whose target fields are all set makes no backend call and
\* leaves them unchanged (conflict; narrative; title and title_options;
\* logline, synopsis and keywords); a title that is present is never
\* changed. The other fields of a group with a field missing are not kept.
C7_CompleteGroupsKept ==
    (pc = "returned" /\ ~force /\ combined.how = "none")
        => /\ pre.conflict_data # None
                => (entry.conflict_data = pre.conflict_data
                    /\ CallsOfKind("conflict") = {})
           /\ TruthyStr(pre.narrative_text)
                => (entry.narrative_text = pre.narrative_text
                    /\ CallsOfKind("narrative") = {})
           /\ TruthyWords(pre.title) => entry.title = pre.title
           /\ (TruthyWords(pre.title) /\ pre.title_options # <<>>)
                => (entry.title_options = pre.title_options
                    /\ CallsOfKind("title_options") = {}
                    /\ CallsOfKind("title") = {})
           /\ (TruthyWords(pre.logline) /\ TruthyStr(pre.synopsis)
               /\ pre.keywords # <<>>)
                => (/\ entry.logline = pre.logline
                    /\ entry.synopsis = pre.synopsis
                    /\ entry.keywords = pre.keywords
                    /\ CallsOfKind("synopsis") = {})

\* C7 witness: a sequential call has returned on an entry that had its
\* conflict and title options but no title, and the options were replaced.
C7_Witness ==
    /\ pc = "returned" /\ ~force /\ combined.how = "none"
    /\ pre.conflict_data # None
    /\ pre.title_options # <<>>
    /\ ~TruthyWords(pre.title)
    /\ entry.title_options # pre.title_options
    /\ entry.conflict_data = pre.conflict_data

C9_KeywordsCapped ==
    pc = "returned" => Len(entry.keywords) <= KeywordCap

\* C10: every conflict profile stored on an entry has tension_level in 1..10
\* and an archetype of the fixed enumeration.
C10_ConflictWellFormed ==
    entry.conflict_data # None
        => /\ entry.conflict_data[1].tension_level \in 1..10
           /\ entry.conflict_data[1].archetype \in Archetypes

----------------------------------------------------------------------------
\* Properties of the direct calls

\* the logged calls of one function
CallsTo(fn) == {i \in 1..Len(hist) : hist[i].fn = fn}

\* the backend answered with nothing but one JSON value of the given kind
BareJson(resp, k) ==
    resp.kind = "text" /\ ~resp.prose /\ resp.fence = "none" /\ resp.body.k = k

\* a JSON object that has the three keys of the synopsis prompt
HasSynopsisKeys(obj) ==
    obj.logline # None /\ obj.synopsis # None /\ obj.keywords # None

\* C11: when the backend returns a well-formed JSON object with logline,
\* synopsis and keywords, generate_synopsis returns that logline, that
\* synopsis and the first 5 of those keywords, not the empty triple.
C11_SynopsisParsed ==
    \A i \in CallsTo("generate_synopsis") :
        (/\ ~(\A n \in 1..Len(hist[i].text) : hist[i].text[n] = " ")
         /\ BareJson(hist[i].resp, "object")
         /\ HasSynopsisKeys(hist[i].resp.body.v))
            => LET obj == hist[i].resp.body.v
               IN  /\ hist[i].value.logline = obj.logline[1]
                   /\ hist[i].value.synopsis = obj.synopsis[1]
                   /\ hist[i].value.keywords = Take(obj.keywords[1], KeywordCap)

\* C12: the logline generate_synopsis returns has at most 15 words; a longer
\* logline in a well-formed backend response is trimmed, so what is returned
\* is a non-empty leading part of it.
C12_LoglineTrimmed ==
    \A i \in CallsTo("generate_synopsis") :
        /\ Len(hist[i].value.logline) <= LoglineCap
        /\ (/\ ~(\A n \in 1..Len(hist[i].text) : hist[i].text[n] = " ")
            /\ BareJson(hist[i].resp, "object")
            /\ HasSynopsisKeys(hist[i].resp.body.v))
               => LET given == hist[i].resp.body.v.logline[1]
                      got == hist[i].value.logline
                  IN  got # <<>> /\ got = Take(given, Len(got))

\* the kinds of bad answer to the conflict prompt: unavailable, empty, text
\* that is not JSON, JSON that is not an object, an object whose tension is
\* null or not a number
BadConflictResponse(resp) ==
    \/ resp.kind \in {"unavailable", "empty"}
    \/ resp.body.k \in {"none", "invalid", "array"}
    \/ /\ resp.body.k = "object"
       /\ resp.body.v.tension # None
       /\ resp.body.v.tension[1].k # "num"

\* C13: on every kind of bad backend response analyze_entry returns the
\* profile of the keyword heuristic and raises nothing.
C13_BadResponseFallsBack ==
    \A i \in CallsTo("analyze_entry") :
        (hist[i].requests > 0 /\ BadConflictResponse(hist[i].resp))
            => (~hist[i].raised
                /\ hist[i].value = FallbackAnalysis(hist[i].text))

\* the answer is a JSON object with the five keys of the conflict prompt and
\* a numeric tension, bare or wrapped in a code fence
WellFormedConflictResponse(resp) ==
    /\ resp.kind = "text"
    /\ resp.body.k = "object"
    /\ resp.fence \in {"json", "plain"} \/ ~resp.prose
    /\ resp.body.v.internal # None
    /\ resp.body.v.external # None
    /\ resp.body.v.tension # None
    /\ resp.body.v.tension[1].k = "num"
    /\ resp.body.v.archetype # None
    /\ resp.body.v.central_conflict # None

\* C14: when the backend returns a well-formed JSON object with the keys
\* internal, external, tension, archetype and central_conflict, bare or in a
\* ```json / ``` code fence, analyze_entry returns the profile whose five
\* fields are exactly those values, after one backend request.
C14_WellFormedResponseReturned ==
    \A i \in CallsTo("analyze_entry") :
        (hist[i].requests > 0 /\ WellFormedConflictResponse(hist[i].resp))
            => LET obj == hist[i].resp.body.v
               IN  /\ ~hist[i].raised
                   /\ hist[i].requests = 1
                   /\ hist[i].value.internal_conflicts = obj.internal[1]
                   /\ hist[i].value.external_conflicts = obj.external[1]
                   /\ hist[i].value.tension_level = obj.tension[1].v
                   /\ hist[i].value.archetype = obj.archetype[1]
                   /\ hist[i].value.central_conflict = obj.central_conflict[1]

\* C14 witness: analyze_entry was given the object in a plain ``` fence and
\* returned its tension, which the keyword heuristic never produces.
C14_Witness ==
    \E i \in CallsTo("analyze_entry") :
        /\ hist[i].resp.fence = "plain"
        /\ WellFormedConflictResponse(hist[i].resp)
        /\ hist[i].requests = 1
        /\ hist[i].value.tension_level = 7
        /\ hist[i].value # FallbackAnalysis(hist[i].text)

\* C15: analyze_entry on empty or whitespace-only text returns the zero-value
\* profile (tension 1, archetype none, empty lists, empty central_conflict)
\* and makes no backend request.
C15_BlankTextZeroProfile ==
    \A i \in CallsTo("analyze_entry") :
        (\A n \in 1..Len(hist[i].text) : hist[i].text[n] = " ")
            => /\ hist[i].requests = 0
               /\ ~hist[i].raised
               /\ hist[i].value.internal_conflicts = <<>>
               /\ hist[i].value.external_conflicts = <<>>
               /\ hist[i].value.tension_level = 1
               /\ hist[i].value.archetype = "none"
               /\ hist[i].value.central_conflict = ""

\* C15 witness: analyze_entry has returned for a whitespace-only text, and a
\* call on the empty text is in the log too.
C15_Witness ==
    /\ \E i \in CallsTo("analyze_entry") :
          hist[i].text = <<" ">> /\ hist[i].requests = 0
    /\ \E i \in CallsTo("analyze_entry") :
          hist[i].text = <<>> /\ hist[i].requests = 0

\* the cue words of the keyword heuristic
InternalCues ==
    {"doubt", "unsure", "scared", "fear", "worried", "think if",
     "sad", "depressed", "lonely"}

ExternalCues ==
    {"deadline", "work", "boss", "client", "finish",
     "traffic", "broken", "rain", "storm"}

\* C16: the keyword fallback is deterministic and follows the rule table:
\* internal cues only give tension 4 and person vs self; any external cue
\* gives tension 6 and person vs time or person vs environment; no cue gives
\* tension 1 and none; the archetype is always of the fixed enumeration.
C16_FallbackRuleTable ==
    /\ \A i \in CallsTo("_fallback_analysis") :
          LET int == AnyIn(InternalCues, hist[i].text)
              ext == AnyIn(ExternalCues, hist[i].text)
              v == hist[i].value
          IN  /\ (int /\ ~ext)
                    => (v.tension_level = 4 /\ v.archetype = "person vs self")
              /\ ext => /\ v.tension_level = 6
                        /\ v.archetype \in {"person vs time",
                                            "person vs environment"}
              /\ (~int /\ ~ext)
                    => (v.tension_level = 1 /\ v.archetype = "none")
              /\ v.archetype \in Archetypes
    /\ \A i, j \in CallsTo("_fallback_analysis") :
          hist[i].text = hist[j].text => hist[i].value = hist[j].value

\* C16 witness: the fallback ran on a text with an internal and an external
\* cue after it ran on a text with internal cues only.
C16_Witness ==
    /\ Len(hist) = 2
    /\ hist[1].fn = "_fallback_analysis"
    /\ hist[2].fn = "_fallback_analysis"
    /\ hist[1].text = <<"lonely">>
    /\ hist[1].value.tension_level = 4
    /\ hist[2].text = <<"scared", "of", "the", "deadline">>
    /\ hist[2].value.tension_level = 6

\* the field generators
FieldGenerators ==
    {"generate_narrative", "generate_title", "generate_title_options",
     "generate_synopsis"}

\* C17: after a successful call of a field generator, a second call that
\* builds the identical prompt makes no backend request and returns the
\* result of the first.
C17_SecondCallServedFromCache ==
    \A i, j \in 1..Len(hist) :
        (/\ i < j
         /\ hist[i].fn \in FieldGenerators
         /\ hist[j].fn = hist[i].fn
         /\ hist[j].prompt = hist[i].prompt
         /\ hist[i].resp.kind = "text"
         /\ ~hist[i].raised)
            => (hist[j].requests = 0 /\ hist[j].value = hist[i].value)

\* C20: generate_title returns a title of at most 7 words for every backend
\* response.
C20_TitleAtMostSevenWords ==
    \A i \in CallsTo("generate_title") : Len(hist[i].value) <= TitleKeep

----------------------------------------------------------------------------
\* Two callers inside _process_entry_full at the same time, each on its own
\* entry, sharing the global director_engine.cache. A caller's steps are the
\* statements of the function in program order; the steps of the two callers
\* interleave freely. workers[w] holds the local variables of caller w.

Callers == {1, 2}

\* backend answers to the combined prompt given to the callers
ConcResponses ==
    {Unavailable(EmptyDocument),
     Text(TRUE, "none", "object", GoodDocument),
     Text(FALSE, "json", "object", LooseDocument),
     Text(FALSE, "none", "object",
          [GoodDocument EXCEPT !.metadata = Json("other", NoMetadataKeys)])}

\* caller w enters _process_entry_full with a new entry of text t
StartWorker(t) ==
    [pc |-> "lookup", entry |-> NewEntry(t), key |-> None, resp |-> None,
     data |-> None, hit |-> FALSE]

\* `data` as a variable shared by the callers: the document parsed last
LatestData(ws, w) ==
    LET o == CHOOSE x \in Callers : x # w
    IN  IF ws[o].data # None THEN ws[o].data[1] ELSE ws[w].data[1]

\* `data`, a local variable of the call
DataOf(ws, w) == ws[w].data[1]

\* lines 353-362: the prompt is built and the cache is consulted
Lookup ==
    /\ \E w \in Callers :
          /\ workers[w].pc = "lookup"
          /\ \E d \in StyleDirections(DetectMood(workers[w].entry.raw_text)) :
                LET key == FullPrompt(workers[w].entry.raw_text, d)
                    cached == CacheGet(cache.full, key)
                IN  workers' = [workers EXCEPT ![w] =
                        IF cached # None /\ DocTruthy(cached[1])
                        THEN [@ EXCEPT !.pc = "conflict", !.key = Some(key),
                                       !.data = cached, !.hit = TRUE]
                        ELSE [@ EXCEPT !.pc = "request", !.key = Some(key)]]
    /\ UNCHANGED <<entry, pc, force, pre, calls, cache, combined, nCalls,
                   hist, nGen, repo, seg>>

\* lines 366-375: the backend answers and the answer is parsed
Request ==
    /\ \E w \in Callers, resp \in ConcResponses :
          /\ workers[w].pc = "request"
          /\ workers' = [workers EXCEPT ![w] =
                IF ~HasResult(resp) \/ SearchObject(resp).k = "invalid"
                THEN [@ EXCEPT !.pc = "failed", !.resp = Some(resp)]
                ELSE [@ EXCEPT !.pc = "conflict", !.resp = Some(resp),
                               !.data = Some(SearchObject(resp).v)]]
    /\ UNCHANGED <<entry, pc, force, pre, calls, cache, combined, nCalls,
                   hist, nGen, repo, seg>>

\* one of the four assignment groups, run by the caller at position from;
\* r is what the group does to the caller's entry
Apply(w, from, r, to) ==
    /\ workers[w].pc = from
    /\ workers' = [workers EXCEPT ![w] =
           [@ EXCEPT !.entry = r.entry,
                     !.pc = IF r.raised THEN "failed" ELSE to]]
    /\ UNCHANGED <<entry, pc, force, pre, calls, cache, combined, nCalls,
                   hist, nGen, repo, seg>>

\* "# 1. Conflict"
ApplyConflict ==
    \E w \in Callers :
        Apply(w, "conflict",
              SetConflict(workers[w].entry, DataOf(workers, w)), "narrative")

\* "# 2. Narrative"
ApplyNarrative ==
    \E w \in Callers :
        Apply(w, "narrative",
              SetNarrative(workers[w].entry, DataOf(workers, w)), "titles")

\* "# 3. Titles"
ApplyTitles ==
    \E w \in Callers :
        Apply(w, "titles",
              SetTitles(workers[w].entry, DataOf(workers, w)), "metadata")

\* "# 4. Metadata"; a caller served from the cache returns after it
ApplyMetadata ==
    \E w \in Callers :
        Apply(w, "metadata",
              SetMetadata(workers[w].entry, DataOf(workers, w)),
              IF workers[w].hit THEN "done" ELSE "store")

\* line 406: the parsed document is cached, and the caller returns
StoreInCache ==
    /\ \E w \in Callers :
          /\ workers[w].pc = "store"
          /\ cache' = [cache EXCEPT !.full =
                          CacheSet(@, workers[w].key[1], DataOf(workers, w))]
          /\ workers' = [workers EXCEPT ![w].pc = "done"]
    /\ UNCHANGED <<entry, pc, force, pre, calls, combined, nCalls, hist, nGen,
                   repo, seg>>

ConcInit ==
    /\ entry = NewEntry(<<>>)
    /\ pc = "idle"
    /\ force = FALSE
    /\ pre = entry
    /\ calls = <<>>
    /\ cache = [full |-> <<>>, narrative |-> <<>>]
    /\ combined = NoCombined
    /\ nCalls = 0
    /\ hist = <<>>
    /\ nGen = 0
    /\ workers \in [Callers -> {StartWorker(t) : t \in RawTexts \ {<<>>}}]
    /\ repo = NoRepository
    /\ seg = NoSegments

ConcNext ==
    \/ Lookup
    \/ Request
    \/ ApplyConflict
    \/ ApplyNarrative
    \/ ApplyTitles
    \/ ApplyMetadata
    \/ StoreInCache

ConcSpec == ConcInit /\ [][ConcNext]_vars

----------------------------------------------------------------------------
\* Properties of the concurrent callers

\* the document in the answer caller w got from the backend
OwnPayload(w) == SearchObject(workers[w].resp[1]).v

\* caller w has returned after a request of its own
DoneFresh(w) == workers[w].pc = "done" /\ ~workers[w].hit

\* C18: when two callers process entries that build the identical prompt,
\* both lookups may miss and both may call the backend; each caller's entry
\* then holds exactly what its own response populates and nothing of the
\* other response, and the cache holds under that key one value, which is
\* the payload of one of the callers; a caller that arrives after the value
\* was stored is populated from that one payload.
C18_ConcurrentMissesHarmless ==
    /\ \A w \in Callers :
          DoneFresh(w)
             => /\ workers[w].entry =
                      PopulateEntryFromData(
                          NewEntry(workers[w].entry.raw_text), OwnPayload(w)).entry
                /\ workers[w].key[1] \in DOMAIN cache.full
    /\ \A w \in Callers :
          (workers[w].pc = "done" /\ workers[w].hit)
             => \E o \in Callers :
                   /\ DoneFresh(o)
                   /\ workers[o].key = workers[w].key
                   /\ workers[w].entry =
                         PopulateEntryFromData(
                             NewEntry(workers[w].entry.raw_text),
                             OwnPayload(o)).entry
    /\ \A k \in DOMAIN cache.full :
          \E w \in Callers :
             /\ DoneFresh(w)
             /\ workers[w].key = Some(k)
             /\ cache.full[k] = OwnPayload(w)

\* C18 witness: both callers missed, both called the backend, their answers
\* differ, both have returned, and the cache holds the second caller's
\* payload under the key they share.
C18_Witness ==
    /\ DoneFresh(1) /\ DoneFresh(2)
    /\ workers[1].key = workers[2].key
    /\ OwnPayload(1) # OwnPayload(2)
    /\ workers[1].entry # workers[2].entry
    /\ cache.full[workers[1].key[1]] = OwnPayload(2)

----------------------------------------------------------------------------
\* Title selection in process_entry

\* t is the title of the first option that has the maximum score
IsFirstMax(options, t) ==
    \E i \in 1..Len(options) :
        /\ options[i].title = t
        /\ \A j \in 1..Len(options) : ScoreKey(options[j]) <= ScoreKey(options[i])
        /\ \A j \in 1..(i - 1) : ScoreKey(options[j]) < ScoreKey(options[i])

\* C19: whenever process_entry selects a title, by the sequential strategy
\* (ensure_title) or by the combined one, the title is that of the option
\* with the maximum score in the stored title_options, the first such option
\* when several share the maximum.
C19_SelectedTitleIsFirstMax ==
    entry.title # pre.title => IsFirstMax(entry.title_options, entry.title)

\* C19 witness: the sequential strategy has selected the title from options
\* of which the first two share the maximum score.
C19_Witness ==
    /\ pc = "returned"
    /\ CallsOfKind("title_options") # {}
    /\ pre.title = None
    /\ Len(entry.title_options) = 2
    /\ ScoreKey(entry.title_options[1]) = ScoreKey(entry.title_options[2])
    /\ entry.title = entry.title_options[1].title
    /\ entry.title_options[1].title # entry.title_options[2].title

----------------------------------------------------------------------------
\* Title options

\* the answer to the title-options prompt holds no valid option: the backend
\* is unavailable, or there is no JSON array, an empty array, only elements
\* without a title, or an element whose score cannot be cast to float
NoUsableOption(resp) ==
    \/ resp.kind # "text"
    \/ resp.body.k # "array"
    \/ resp.body.v = <<>>
    \/ \A i \in 1..Len(resp.body.v) :
          ~resp.body.v[i].isdict \/ resp.body.v[i].title = None
    \/ \E i \in 1..Len(resp.body.v) :
          /\ resp.body.v[i].isdict
          /\ resp.body.v[i].title # None
          /\ resp.body.v[i].score # None
          /\ resp.body.v[i].score[1].k # "num"

\* the one option that wraps a generate_title result
DirectOption(t) ==
    <<Opt(TRUE, Some(t), Some("Direct"), Some(Num(DefaultScore)))>>

\* C21 as stated: generate_title_options always returns a non-empty list,
\* and whenever the backend is unavailable or its response holds no valid
\* option the result is exactly one option wrapping the generate_title
\* result with pattern "Direct" and score 0.5.
C21_FallbackIsDirectOption ==
    \A i \in CallsTo("generate_title_options") :
        /\ hist[i].value # <<>>
        /\ NoUsableOption(hist[i].resp)
              => \E resp2 \in TitleResponses :
                    hist[i].value =
                        DirectOption(GenerateTitle(IsBlank(hist[i].text),
                                                   resp2).value)

\* C21 amended: generate_title_options always returns a non-empty list. For
\* empty or whitespace-only text it makes no backend request and returns the
\* one option "Untitled Episode" with pattern "Default" and score 1.0. For
\* any other text, when the backend is unavailable or its response holds no
\* valid option, it makes the single-title request as well and returns
\* exactly one option wrapping the generate_title result with pattern
\* "Direct" and score 0.5.
C21_FallbackOrDefault ==
    \A i \in CallsTo("generate_title_options") :
        /\ hist[i].value # <<>>
        /\ (\A n \in 1..Len(hist[i].text) : hist[i].text[n] = " ")
              => /\ hist[i].requests = 0
                 /\ hist[i].value =
                      <<Opt(TRUE, Some(<<"Untitled", "Episode">>),
                            Some("Default"), Some(Num(UntitledScore)))>>
        /\ (/\ \E n \in 1..Len(hist[i].text) : hist[i].text[n] # " "
            /\ NoUsableOption(hist[i].resp))
              => /\ hist[i].requests = 2
                 /\ \E resp2 \in TitleResponses :
                       hist[i].value =
                           DirectOption(GenerateTitle(FALSE, resp2).value)

\* C21 witness: on non-blank text the backend answered with an array whose
\* only element is no object, and the result is the one "Direct" option.
C21_Witness ==
    \E i \in CallsTo("generate_title_options") :
        /\ hist[i].text = <<"long", "walk">>
        /\ hist[i].resp.kind = "text"
        /\ hist[i].resp.body.k = "array"
        /\ hist[i].resp.body.v # <<>>
        /\ NoUsableOption(hist[i].resp)
        /\ hist[i].requests = 2
        /\ Len(hist[i].value) = 1
        /\ hist[i].value[1].pattern = Some("Direct")

\* the option is validated and coerced: an object with a title, a pattern
\* and a numeric score
Coerced(opt) ==
    /\ opt.isdict
    /\ opt.title # None
    /\ opt.pattern # None
    /\ opt.score # None
    /\ opt.score[1].k = "num"

\* C22: every option process_entry stores in entry.title_options, by either
\* strategy, has a title, a pattern and a float score.
C22_StoredOptionsCoerced ==
    \A i \in 1..Len(entry.title_options) : Coerced(entry.title_options[i])

----------------------------------------------------------------------------
\* Mood detection

Moods ==
    {"productive", "reflective", "stressful", "relaxed", "mysterious",
     "neutral"}

\* the categories in the order they are tested
MoodOrder ==
    <<"productive", "reflective", "stressful", "relaxed", "mysterious">>

MoodKeywords(mood) ==
    CASE mood = "productive" ->
            {"productive", "finished", "accomplished", "work", "busy"}
      [] mood = "reflective" ->
            {"sad", "reflective", "thought", "lonely", "missing"}
      [] mood = "stressful" ->
            {"stress", "deadline", "fast", "rushed", "panic"}
      [] mood = "relaxed" -> {"relax", "chill", "calm", "peace", "quiet"}
      [] mood = "mysterious" ->
            {"mystery", "weird", "strange", "dark", "unknown"}

\* the positions in MoodOrder of the categories the text has a keyword of
Matching(text) ==
    {k \in 1..Len(MoodOrder) : AnyIn(MoodKeywords(MoodOrder[k]), text)}

\* C23: detect_mood is a total deterministic function into the six moods:
\* empty or whitespace-only text gives neutral, a text with keywords of
\* several categories gives the earliest of them in the order productive,
\* reflective, stressful, relaxed, mysterious, and a text without keywords
\* gives neutral.
C23_MoodIsFirstMatch ==
    /\ \A i \in CallsTo("detect_mood") :
          /\ ~hist[i].raised
          /\ hist[i].value \in Moods
          /\ (\A n \in 1..Len(hist[i].text) : hist[i].text[n] = " ")
                => hist[i].value = "neutral"
          /\ Matching(hist[i].text) = {} => hist[i].value = "neutral"
          /\ \A k \in Matching(hist[i].text) :
                (\A j \in Matching(hist[i].text) : k <= j)
                    => hist[i].value = MoodOrder[k]
    /\ \A i, j \in CallsTo("detect_mood") :
          hist[i].text = hist[j].text => hist[i].value = hist[j].value

\* C23 witness: detect_mood returned productive for a text that also holds
\* a stressful and a relaxed keyword, after returning neutral for
\* whitespace.
C23_Witness ==
    /\ Len(hist) = 2
    /\ hist[1].fn = "detect_mood"
    /\ hist[1].text = <<" ">>
    /\ hist[1].value = "neutral"
    /\ hist[2].fn = "detect_mood"
    /\ Cardinality(Matching(hist[2].text)) = 3
    /\ hist[2].value = "productive"

----------------------------------------------------------------------------
\* Order of the sequential steps

\* the position of a request in the order conflict, narrative,
\* title(+options), synopsis; the combined request comes before them all
StepRank(kind) ==
    CASE kind = "full" -> 0
      [] kind = "conflict" -> 1
      [] kind = "narrative" -> 2
      [] kind = "title_options" -> 3
      [] kind = "title" -> 4
      [] kind = "synopsis" -> 5

\* the requests of the running call are in step order, a narrative request
\* carries the conflict data that is set by then, and a title or synopsis
\* request is built from the narrative exactly when the entry has one
RequestsInOrder ==
    /\ \A i, j \in 1..Len(calls) :
          i < j => StepRank(calls[i].kind) < StepRank(calls[j].kind)
    /\ \A i \in 1..Len(calls) :
          /\ calls[i].kind = "narrative"
                => /\ calls[i].uses = "raw+conflict"
                   /\ entry.conflict_data # None
          /\ calls[i].kind \in {"title_options", "title", "synopsis"}
                => /\ entry.conflict_data # None
                   /\ (calls[i].uses = "narrative"
                          <=> (entry.narrative_text # None
                               /\ entry.narrative_text[1] # ""))
                   /\ (calls[i].uses = "raw"
                          <=> (entry.narrative_text = None
                               \/ entry.narrative_text[1] = ""))

\* each sequential step is followed by the next one, or by the exception
\* that ends process_entry
StepsInOrder ==
    /\ pc = "ensure_conflict" => pc' \in {"ensure_narrative", "raised"}
    /\ pc = "ensure_narrative" => pc' \in {"ensure_title", "raised"}
    /\ pc = "ensure_title" => pc' = "ensure_synopsis"
    /\ pc = "ensure_synopsis" => pc' = "returned"
    /\ pc' = "ensure_narrative" => entry'.conflict_data # None

\* C28: in the sequential strategy the steps run in the fixed order
\* conflict, narrative, title(+options), synopsis; the narrative request is
\* built only after conflict data is set and includes it; the title and
\* synopsis requests are built from the narrative text when it is present
\* and from the raw text only when it is absent.
C28_SequentialOrder == []RequestsInOrder /\ [][StepsInOrder]_vars

\* C28 witness: a call fell back from the combined strategy and returned
\* after a conflict, a narrative, a title-options and a synopsis request, the
\* last two built from the new narrative.
C28_Witness ==
    /\ pc = "returned"
    /\ combined.how = "failed"
    /\ Len(calls) = 5
    /\ calls[2].kind = "conflict"
    /\ calls[3] = Call("narrative", "raw+conflict")
    /\ calls[4] = Call("title_options", "narrative")
    /\ calls[5] = Call("synopsis", "narrative")
    /\ pre.narrative_text = None

----------------------------------------------------------------------------
\* What the response cache holds

\* every cached narrative is the enriched non-empty text of a backend
\* answer, and every cached document was parsed from a non-empty backend
\* answer and applies to an entry without raising
CacheHoldsBackendResults ==
    /\ \A key \in DOMAIN cache.narrative :
          \E resp \in NarrativeResponses :
             /\ resp.kind = "text"
             /\ resp.body.v # ""
             /\ cache.narrative[key] = AddSensoryLayer(resp.body.v)
    /\ \A key \in DOMAIN cache.full :
          \E resp \in FullResponses :
             /\ resp.kind = "text"
             /\ resp.body.k = "object"
             /\ cache.full[key] = resp.body.v
             /\ ~PopulateEntryFromData(NewEntry(key[1]), resp.body.v).raised

\* the cache is written only by a step that made a backend request and
\* succeeded, a failing step leaves it as it was, and a step that finds no
\* entry for its text makes the request
CacheWrittenOnSuccess ==
    /\ cache'.full # cache.full
          => /\ pc = "full"
             /\ combined'.how = "fresh"
             /\ calls' = Append(calls, Call("full", "raw"))
             /\ entry' = PopulateEntryFromData(entry, combined'.doc[1]).entry
             /\ \E key \in DOMAIN cache'.full :
                   /\ key[1] = entry.raw_text
                   /\ cache'.full = CacheSet(cache.full, key, combined'.doc[1])
    /\ cache'.narrative # cache.narrative
          => /\ pc = "ensure_narrative"
             /\ pc' = "ensure_title"
             /\ Len(calls') = Len(calls) + 1
             /\ \E key \in DOMAIN cache'.narrative :
                   /\ key[1] = entry.raw_text
                   /\ cache'.narrative =
                         CacheSet(cache.narrative, key,
                                  entry'.narrative_text[1])
    /\ (pc = "full" /\ combined'.how = "failed") => cache' = cache
    /\ pc' = "raised" => cache' = cache
    /\ (/\ pc = "full"
        /\ \A key \in DOMAIN cache.full : key[1] # entry.raw_text)
          => calls' = Append(calls, Call("full", "raw"))
    /\ (/\ pc = "ensure_narrative"
        /\ entry.narrative_text = None
        /\ \E n \in 1..Len(entry.raw_text) : entry.raw_text[n] # " "
        /\ \A key \in DOMAIN cache.narrative : key[1] # entry.raw_text)
          => Len(calls') = Len(calls) + 1

\* C30: the response cache is written only after a backend call returned
\* non-empty text, and for the combined strategy only after the whole
\* document was parsed and applied to the entry; a fallback or degraded
\* value is never cached, so after a backend failure the next call with the
\* same prompt makes the backend request again.
C30_CacheOnlyAfterSuccess ==
    []CacheHoldsBackendResults /\ [][CacheWrittenOnSuccess]_vars

\* C30 witness: the first call failed in the combined strategy and cached
\* only the narrative of its sequential steps; the second, forced call on
\* the same text made the combined request again, failed again, and the
\* cache still holds no document.
C30_Witness ==
    /\ nCalls = 2
    /\ force
    /\ pc = "ensure_conflict"
    /\ combined.how = "failed"
    /\ calls = <<Call("full", "raw")>>
    /\ DetectMood(entry.raw_text) = "neutral"
    /\ pre.conflict_data # None
    /\ pre.synopsis # None
    /\ DOMAIN cache.full = {}
    /\ DOMAIN cache.narrative # {}

----------------------------------------------------------------------------
\* processor.py: segment_diary_text
\*
\* A text is the sequence of its lines, as text.splitlines() gives them
\* after the line endings are normalised; a line is a sequence of tokens,
\* " " being whitespace. A bucket of the result is a sequence of pieces, one
\* for each line of the bucket's string: text is the line and src the number
\* of the input line it was taken from (0 for the empty line that
\* "\n\n".join puts between two paragraphs). The empty sequence is "".

Piece(src, text) == [src |-> src, text |-> text]

\* the three-way split: (n + 2) // 3 and (2 * n + 2) // 3
Thirds == 3

\* str.lower() on a token
Lower(tok) ==
    CASE tok = "Morning:" -> "morning:"
      [] tok = "Night:" -> "night:"
      [] tok = "EVENING:" -> "evening:"
      [] tok = "Lunch" -> "lunch"
      [] OTHER -> tok

\* the marker test without its `or lower_line.startswith("evening:")`
MarkerKeyNoEvening(stripped) ==
    IF stripped = <<>> THEN None
    ELSE CASE Lower(stripped[1]) = "morning:" -> Some("morning")
           [] Lower(stripped[1]) = "afternoon:" -> Some("afternoon")
           [] Lower(stripped[1]) = "night:" -> Some("night")
           [] OTHER -> None

\* new_key for a stripped line: lower_line.startswith(...)
MarkerKey(stripped) ==
    IF stripped = <<>> THEN None
    ELSE CASE Lower(stripped[1]) = "morning:" -> Some("morning")
           [] Lower(stripped[1]) = "afternoon:" -> Some("afternoon")
           [] Lower(stripped[1]) \in {"night:", "evening:"} -> Some("night")
           [] OTHER -> None

\* the loop over the lines, from line i on; key is current_key and cap is
\* segment_captured
RECURSIVE Capture(_, _, _, _)
Capture(lines, i, key, cap) ==
    IF i > Len(lines) THEN cap
    ELSE LET stripped == Strip(lines[i])
             new == MarkerKey(stripped)
         IN  IF new # None
             THEN LET content == Strip(Tail(stripped))
                  IN  Capture(lines, i + 1, new,
                              IF content # <<>>
                              THEN [cap EXCEPT
                                      ![new[1]] = Append(@, Piece(i, content))]
                              ELSE cap)
             ELSE IF key # None
             THEN Capture(lines, i + 1, key,
                          [cap EXCEPT
                              ![key[1]] = Append(@, Piece(i, lines[i]))])
             ELSE Capture(lines, i + 1, key,
                          [cap EXCEPT
                              !.unassigned = Append(@, Piece(i, lines[i]))])

RECURSIVE DropBlankHead(_)
DropBlankHead(ps) ==
    IF ps # <<>> /\ Strip(Head(ps).text) = <<>>
    THEN DropBlankHead(Tail(ps))
    ELSE ps

RECURSIVE DropBlankTail(_)
DropBlankTail(ps) ==
    IF ps # <<>> /\ Strip(ps[Len(ps)].text) = <<>>
    THEN DropBlankTail(SubSeq(ps, 1, Len(ps) - 1))
    ELSE ps

\* "\n".join(pieces).strip(): blank lines at both ends go, and so does the
\* whitespace before the first and after the last line that is left
StripJoined(ps) ==
    LET a == DropBlankTail(DropBlankHead(ps))
    IN  IF a = <<>> THEN <<>>
        ELSE LET b == [a EXCEPT ![1].text = LStrip(@)]
             IN  [b EXCEPT ![Len(b)].text = RStrip(@)]

\* text.split('\n\n') from line i on: an empty line ends the piece cur
RECURSIVE SplitBlankLines(_, _, _)
SplitBlankLines(lines, i, cur) ==
    IF i > Len(lines) THEN <<cur>>
    ELSE IF lines[i] = <<>>
    THEN <<cur>> \o SplitBlankLines(lines, i + 1, <<>>)
    ELSE SplitBlankLines(lines, i + 1, Append(cur, Piece(i, lines[i])))

RECURSIVE StripEach(_)
StripEach(runs) ==
    IF runs = <<>> THEN <<>>
    ELSE LET p == StripJoined(Head(runs))
         IN  (IF p = <<>> THEN <<>> ELSE <<p>>) \o StripEach(Tail(runs))

\* [p.strip() for p in text.split('\n\n') if p.strip()]
Paragraphs(lines) == StripEach(SplitBlankLines(lines, 1, <<>>))

\* the lower-case tokens of a paragraph
RECURSIVE LowerTokens(_)
LowerTokens(p) ==
    IF p = <<>> THEN <<>>
    ELSE [n \in 1..Len(Head(p).text) |-> Lower(Head(p).text[n])]
            \o LowerTokens(Tail(p))

MorningHints == {"woke up", "breakfast", "8am", "9am", "10am", "morning"}

AfternoonHints == {"lunch", "1pm", "2pm", "afternoon"}

NightHints == {"dinner", "night", "evening", "tonight", "bed"}

\* the keyword tests with the night test first
HintKeyNightFirst(p) ==
    IF AnyIn(NightHints, LowerTokens(p)) THEN Some("night")
    ELSE IF AnyIn(MorningHints, LowerTokens(p)) THEN Some("morning")
    ELSE IF AnyIn(AfternoonHints, LowerTokens(p)) THEN Some("afternoon")
    ELSE None

\* the if/elif chain over p_lower: the bucket of a paragraph, if any
HintKey(p) ==
    IF AnyIn(MorningHints, LowerTokens(p)) THEN Some("morning")
    ELSE IF AnyIn(AfternoonHints, LowerTokens(p)) THEN Some("afternoon")
    ELSE IF AnyIn(NightHints, LowerTokens(p)) THEN Some("night")
    ELSE None

\* p_segments[key]: the paragraphs whose bucket is key, in order
RECURSIVE Hinted(_, _)
Hinted(paragraphs, key) ==
    IF paragraphs = <<>> THEN <<>>
    ELSE (IF HintKey(Head(paragraphs)) = Some(key)
          THEN <<Head(paragraphs)>> ELSE <<>>)
            \o Hinted(Tail(paragraphs), key)

\* "\n\n".join(paragraphs)
RECURSIVE JoinParagraphs(_)
JoinParagraphs(ps) ==
    IF ps = <<>> THEN <<>>
    ELSE IF Len(ps) = 1 THEN ps[1]
    ELSE ps[1] \o <<Piece(0, <<>>)>> \o JoinParagraphs(Tail(ps))

\* first_split with the division rounded down
FirstSplitFloor(n) == n \div Thirds

\* first_split = (n + 2) // 3
FirstSplit(n) == (n + Thirds - 1) \div Thirds

\* second_split = (2 * n + 2) // 3
SecondSplit(n) == (2 * n + Thirds - 1) \div Thirds

\* the middle slice starting at 0 instead of first_split
MiddleFromStart(paragraphs, first, second) == SubSeq(paragraphs, 1, second)

\* paragraphs[first_split:second_split]
Middle(paragraphs, first, second) == SubSeq(paragraphs, first + 1, second)

Segments(morning, afternoon, night, tiers) ==
    [morning |-> morning, afternoon |-> afternoon, night |-> night,
     tiers |-> tiers]

\* "# 3. POSITION-BASED FALLBACK", entered with all three segments empty
Positional(paragraphs) ==
    LET n == Len(paragraphs)
    IN  IF n >= Thirds
        THEN Segments(JoinParagraphs(SubSeq(paragraphs, 1, FirstSplit(n))),
                      JoinParagraphs(Middle(paragraphs, FirstSplit(n),
                                            SecondSplit(n))),
                      JoinParagraphs(SubSeq(paragraphs, SecondSplit(n) + 1,
                                            n)),
                      {"position"})
        ELSE IF n = 2
        THEN Segments(paragraphs[1], paragraphs[2], <<>>, {"position"})
        ELSE IF n = 1
        THEN Segments(paragraphs[1], <<>>, <<>>, {"position"})
        ELSE Segments(<<>>, <<>>, <<>>, {"position"})

\* segment_diary_text(raw_text). The first test is that for blank text, the
\* second is found_markers. tiers names the steps that ran: "markers" (the
\* return at the end of step 1), "hints" (the assignments of step 2),
\* "position" (the body of the `if` of step 3).
SegmentDiaryText(lines) ==
    IF \A i \in 1..Len(lines) : Strip(lines[i]) = <<>>
    THEN Segments(<<>>, <<>>, <<>>, {})
    ELSE IF \E i \in 1..Len(lines) : MarkerKey(Strip(lines[i])) # None
    THEN LET cap == Capture(lines, 1, None,
                            [morning |-> <<>>, afternoon |-> <<>>,
                             night |-> <<>>, unassigned |-> <<>>])
         IN  Segments(StripJoined(cap.unassigned \o cap.morning),
                      StripJoined(cap.afternoon), StripJoined(cap.night),
                      {"markers"})
    ELSE LET paragraphs == Paragraphs(lines)
             hinted == Len(paragraphs) > 1
                         /\ \E i \in 1..Len(paragraphs) :
                               HintKey(paragraphs[i]) # None
         IN  IF hinted
             THEN Segments(StripJoined(JoinParagraphs(
                                         Hinted(paragraphs, "morning"))),
                           StripJoined(JoinParagraphs(
                                         Hinted(paragraphs, "afternoon"))),
                           StripJoined(JoinParagraphs(
                                         Hinted(paragraphs, "night"))),
                           {"hints"})
             ELSE Positional(paragraphs)

\* longest texts given to the segmenter
MaxMarkedLines == 4

MaxParagraphs == 4

\* diary texts with explicit markers: up to MaxMarkedLines lines, each
\* empty, blank, plain or a marker line
MarkedTexts ==
    LET lines == {<<>>, <<" ">>, <<" ", "walk", " ">>,
                  <<"Morning:", " ", "coffee">>, <<"afternoon:">>,
                  <<"Night:", "movie", " ">>,
                  <<" ", "EVENING:", " ", "dinner">>}
    IN  UNION {[1..k -> lines] : k \in 0..MaxMarkedLines}

RECURSIVE JoinWith(_, _)
JoinWith(ps, gap) ==
    IF ps = <<>> THEN <<>>
    ELSE IF Len(ps) = 1 THEN ps[1]
    ELSE ps[1] \o gap \o JoinWith(Tail(ps), gap)

\* diary texts without markers: up to MaxParagraphs paragraphs, plain ones
\* (one with a whitespace-only line inside) and ones with time hints,
\* separated by one empty line or by two
ParagraphTexts ==
    LET forms == {<<<<"walk">>>>,
                  <<<<" ", "walk">>, <<" ">>, <<"home", " ">>>>,
                  <<<<"breakfast">>>>,
                  <<<<"Lunch">>>>,
                  <<<<"dinner">>>>,
                  <<<<"dinner">>, <<"after", " ", "breakfast">>>>}
        gaps == {<<<<>>>>, <<<<>>, <<>>>>}
    IN  {JoinWith(ps, gap) :
            ps \in UNION {[1..k -> forms] : k \in 0..MaxParagraphs},
            gap \in gaps}

\* segment_diary_text on a text with marker lines; seg keeps the argument
\* of the call and what it returned
SegmentMarked ==
    /\ seg = NoSegments
    /\ \E lines \in MarkedTexts :
          seg' = [text |-> lines, out |-> SegmentDiaryText(lines)]
    /\ UNCHANGED <<entry, pc, force, pre, calls, cache, combined, nCalls,
                   hist, nGen, workers, repo>>

\* segment_diary_text on a text of paragraphs
SegmentParagraphs ==
    /\ seg = NoSegments
    /\ \E lines \in ParagraphTexts :
          seg' = [text |-> lines, out |-> SegmentDiaryText(lines)]
    /\ UNCHANGED <<entry, pc, force, pre, calls, cache, combined, nCalls,
                   hist, nGen, workers, repo>>

SegNext == SegmentMarked \/ SegmentParagraphs

SegSpec == GenInit /\ [][SegNext]_vars

----------------------------------------------------------------------------
\* Properties of the segmenter

BucketNames == {"morning", "afternoon", "night"}

\* segment_diary_text has returned
HasSegmented == seg # NoSegments

\* the line starts, after its leading whitespace, with one of the markers
IsMarkerLine(line) ==
    /\ Strip(line) # <<>>
    /\ Lower(Strip(line)[1])
          \in {"morning:", "afternoon:", "night:", "evening:"}

HasMarkers(lines) == \E i \in 1..Len(lines) : IsMarkerLine(lines[i])

\* the bucket a marker names, Evening: standing for night
NamedBucket(line) ==
    IF Lower(Strip(line)[1]) = "morning:" THEN "morning"
    ELSE IF Lower(Strip(line)[1]) = "afternoon:" THEN "afternoon"
    ELSE "night"

\* the bucket of line i: that of the last marker at or before it, morning
\* when there is none
RECURSIVE Governing(_, _)
Governing(lines, i) ==
    IF i = 0 THEN "morning"
    ELSE IF IsMarkerLine(lines[i]) THEN NamedBucket(lines[i])
    ELSE Governing(lines, i - 1)

\* the positions in bucket b of the pieces taken from input line i
PlacesOf(b, i) == {n \in 1..Len(seg.out[b]) : seg.out[b][n].src = i}

\* input line i is in bucket b once, whole up to surrounding whitespace,
\* and in no other bucket
PlacedIn(b, i) ==
    /\ \E n \in PlacesOf(b, i) :
          /\ PlacesOf(b, i) = {n}
          /\ Strip(seg.out[b][n].text) = Strip(seg.text[i])
    /\ \A c \in BucketNames \ {b} : PlacesOf(c, i) = {}

\* the pieces of every bucket are in the order of the input
InputOrder ==
    \A b \in BucketNames :
       \A m, n \in 1..Len(seg.out[b]) :
          (m < n /\ seg.out[b][m].src # 0 /\ seg.out[b][n].src # 0)
             => seg.out[b][m].src < seg.out[b][n].src

\* C24: for text with explicit markers, every line that follows a
\* Morning:/Afternoon:/Night: marker (or Evening:, mapped to night), up to
\* the next marker, is in exactly the matching bucket, and every line before
\* the first marker is in the morning bucket. Lines are counted up to their
\* surrounding whitespace; what follows the colon on a marker line is in
\* the marker's bucket as well.
C24_MarkedLinesInMatchingBucket ==
    (HasSegmented /\ HasMarkers(seg.text))
       => /\ InputOrder
          /\ \A i \in 1..Len(seg.text) :
                IF IsMarkerLine(seg.text[i])
                THEN \A b \in BucketNames :
                        \A n \in PlacesOf(b, i) :
                           /\ b = NamedBucket(seg.text[i])
                           /\ PlacesOf(b, i) = {n}
                           /\ seg.out[b][n].text =
                                 Strip(Tail(Strip(seg.text[i])))
                ELSE IF Strip(seg.text[i]) # <<>>
                THEN PlacedIn(Governing(seg.text, i), i)
                ELSE \A b \in BucketNames \ {Governing(seg.text, i)} :
                        PlacesOf(b, i) = {}

\* C24 witness: a line before the first marker and the lines under a
\* Morning: marker are in morning, the line of an Evening: marker in night.
C24_Witness ==
    /\ HasSegmented
    /\ seg.text = <<<<" ", "walk", " ">>, <<"Morning:", " ", "coffee">>,
                    <<" ", "walk", " ">>, <<" ", "EVENING:", " ", "dinner">>>>
    /\ Len(seg.out.morning) = 3
    /\ seg.out.afternoon = <<>>
    /\ seg.out.night = <<Piece(4, <<"dinner">>)>>

\* line i is the first non-blank line of a paragraph: every line between
\* the last empty line before it and itself is blank
StartsParagraph(lines, i) ==
    /\ Strip(lines[i]) # <<>>
    /\ \A j \in 1..(i - 1) :
          (\A k \in j..(i - 1) : lines[k] # <<>>) => Strip(lines[j]) = <<>>

\* the number of the paragraph a non-blank line i is in; with i the last
\* line, the number of paragraphs
ParagraphNumber(lines, i) ==
    Cardinality({j \in 1..i : StartsParagraph(lines, j)})

\* a token of paragraph k is one of the cues
HasCue(lines, k, cues) ==
    \E i \in 1..Len(lines) :
       /\ Strip(lines[i]) # <<>>
       /\ ParagraphNumber(lines, i) = k
       /\ \E n \in 1..Len(lines[i]) : Lower(lines[i][n]) \in cues

NoHints(lines) ==
    \A k \in 1..ParagraphNumber(lines, Len(lines)) :
       ~HasCue(lines, k, MorningHints \cup AfternoonHints \cup NightHints)

\* every non-blank line of the paragraphs first..last is in bucket b, and
\* the bucket holds nothing else
HoldsParagraphs(b, first, last) ==
    /\ \A i \in 1..Len(seg.text) :
          (/\ Strip(seg.text[i]) # <<>>
           /\ ParagraphNumber(seg.text, i) \in first..last)
             => PlacedIn(b, i)
    /\ \A n \in 1..Len(seg.out[b]) :
          seg.out[b][n].src # 0
             => ParagraphNumber(seg.text, seg.out[b][n].src) \in first..last

\* C25: for text with no markers and no keyword hints and n >= 3
\* paragraphs delimited by empty lines, the paragraphs are split, in their
\* original order, into three contiguous groups (morning, afternoon, night)
\* whose sizes are non-increasing, differ by at most one and sum to n; with
\* 2 paragraphs only morning and afternoon are filled, with 1 only morning,
\* with 0 none.
C25_PositionalSplit ==
    (HasSegmented /\ ~HasMarkers(seg.text) /\ NoHints(seg.text))
       => LET n == ParagraphNumber(seg.text, Len(seg.text))
          IN  /\ InputOrder
              /\ n >= 3 =>
                    \E a, b, c \in 1..n :
                       /\ a + b + c = n
                       /\ a >= b
                       /\ b >= c
                       /\ a - c <= 1
                       /\ HoldsParagraphs("morning", 1, a)
                       /\ HoldsParagraphs("afternoon", a + 1, a + b)
                       /\ HoldsParagraphs("night", a + b + 1, n)
              /\ n = 2 =>
                    /\ HoldsParagraphs("morning", 1, 1)
                    /\ HoldsParagraphs("afternoon", 2, 2)
                    /\ seg.out.night = <<>>
              /\ n = 1 =>
                    /\ HoldsParagraphs("morning", 1, 1)
                    /\ seg.out.afternoon = <<>>
                    /\ seg.out.night = <<>>
              /\ n = 0 =>
                    /\ seg.out.morning = <<>>
                    /\ seg.out.afternoon = <<>>
                    /\ seg.out.night = <<>>

\* C25 witness: four plain paragraphs, one of them with a whitespace-only
\* line inside, were split two, one, one.
C25_Witness ==
    /\ HasSegmented
    /\ ~HasMarkers(seg.text)
    /\ NoHints(seg.text)
    /\ ParagraphNumber(seg.text, Len(seg.text)) = 4
    /\ \E i \in 1..Len(seg.text) : seg.text[i] = <<" ">>
    /\ HoldsParagraphs("morning", 1, 2)
    /\ HoldsParagraphs("afternoon", 3, 3)
    /\ HoldsParagraphs("night", 4, 4)
    /\ seg.out.night # <<>>

\* C26: for every input and whichever tier produces the result, no input
\* line, and so no paragraph, is in more than one bucket or twice in one,
\* and every bucket holds only content taken from the input: each of its
\* lines is a part of the input line it comes from, or the empty line
\* between two paragraphs.
C26_NoDuplicationOnlyInput ==
    HasSegmented
       => \A b \in BucketNames :
             \A n \in 1..Len(seg.out[b]) :
                LET piece == seg.out[b][n]
                IN  IF piece.src = 0
                    THEN /\ piece.text = <<>>
                         /\ 1 < n
                         /\ n < Len(seg.out[b])
                         /\ \E i \in 1..Len(seg.text) : seg.text[i] = <<>>
                    ELSE /\ piece.src \in 1..Len(seg.text)
                         /\ \/ piece.text = <<>>
                            \/ \E from, to \in 1..Len(seg.text[piece.src]) :
                                  /\ from <= to
                                  /\ piece.text =
                                        SubSeq(seg.text[piece.src], from, to)
                         /\ \A c \in BucketNames :
                               \A m \in 1..Len(seg.out[c]) :
                                  seg.out[c][m].src = piece.src
                                     => (c = b /\ m = n)

\* C26 witness: two input lines with the same content are in two buckets,
\* each once.
C26_Witness ==
    /\ HasSegmented
    /\ seg.text = <<<<" ", "walk", " ">>, <<"afternoon:">>,
                    <<" ", "walk", " ">>>>
    /\ seg.out.morning = <<Piece(1, <<"walk">>)>>
    /\ seg.out.afternoon = <<Piece(3, <<"walk">>)>>
    /\ seg.out.night = <<>>

\* the bucket of paragraph k by its cues: morning, then afternoon, then
\* night, or none
CueBucket(lines, k) ==
    IF HasCue(lines, k, MorningHints) THEN Some("morning")
    ELSE IF HasCue(lines, k, AfternoonHints) THEN Some("afternoon")
    ELSE IF HasCue(lines, k, NightHints) THEN Some("night")
    ELSE None

----------------------------------------------------------------------------
\* repository.py: EntryRepository
\*
\* An entry carries the fields id, title, keywords and season_id; title
\* stands for the text columns (stored as they are), keywords for the
\* columns stored as JSON text, season_id for the field without a column.

RepoEntry(id, title, keywords, season_id) ==
    [id |-> id, title |-> title, keywords |-> keywords,
     season_id |-> season_id]

\* entries handed to create_entry and update_entry
WrittenEntries ==
    {RepoEntry(id, title, keywords, season_id) :
        id \in {None} \cup {Some(i) : i \in 1..MaxRows},
        title \in {None, Some("Pilot")},
        keywords \in {Some(<<>>), Some(<<"rain">>)},
        season_id \in {None, Some(1)}}

\* `json.dumps(x) if x else None`
Dumps(list) ==
    IF list = None \/ list[1] = <<>> THEN None
    ELSE Some([json |-> list[1]])

\* `if data.get(col): data[col] = json.loads(data[col])`
Loads(column) == IF column = None THEN None ELSE Some(column[1].json)

\* the column values of an INSERT or UPDATE
Row(e) == [title |-> e.title, keywords |-> Dumps(e.keywords)]

\* Entry.from_dict(dict(row)): the row has no season_id
FromRow(id, row) == RepoEntry(Some(id), row.title, Loads(row.keywords), None)

Called(op, id, result, raised, untouched) ==
    [op |-> op, id |-> id, result |-> result, raised |-> raised,
     untouched |-> untouched]

\* create_entry(entry): the id of the argument is ignored, the new row gets
\* the next id and the entry is returned with it
CreateEntry ==
    /\ repo.lastrowid < MaxRows
    /\ \E e \in WrittenEntries :
          LET id == repo.lastrowid + 1
              stored == [e EXCEPT !.id = Some(id)]
          IN  repo' = [repo EXCEPT
                         !.rows[id] = Some(Row(e)),
                         !.lastrowid = id,
                         !.written[id] = Some(stored),
                         !.last = Called("create", Some(id), Some(stored),
                                         FALSE, FALSE)]
    /\ UNCHANGED <<entry, pc, force, pre, calls, cache, combined, nCalls,
                   hist, nGen, workers, seg>>

\* update_entry(entry): ValueError without id; the UPDATE changes the row
\* with that id if there is one, and the entry is returned either way
UpdateEntry ==
    /\ \E e \in WrittenEntries :
          IF e.id = None
          THEN repo' = [repo EXCEPT
                          !.last = Called("update", None, None, TRUE, TRUE)]
          ELSE LET id == e.id[1]
               IN  repo' = [repo EXCEPT
                              !.rows[id] = IF @ = None THEN None
                                           ELSE Some(Row(e)),
                              !.written[id] = Some(e),
                              !.deleted = @ \ {id},
                              !.last = Called("update", Some(id), Some(e),
                                              FALSE,
                                              repo.rows[id] = None
                                                \/ repo.rows[id]
                                                      = Some(Row(e)))]
    /\ UNCHANGED <<entry, pc, force, pre, calls, cache, combined, nCalls,
                   hist, nGen, workers, seg>>

\* get_entry_by_id(entry_id)
GetEntryById ==
    /\ \E id \in 1..MaxRows :
          repo' = [repo EXCEPT
                     !.last = Called("get", Some(id),
                                     IF repo.rows[id] = None THEN None
                                     ELSE Some(FromRow(id, repo.rows[id][1])),
                                     FALSE, TRUE)]
    /\ UNCHANGED <<entry, pc, force, pre, calls, cache, combined, nCalls,
                   hist, nGen, workers, seg>>

\* delete_entry(entry_id): `cursor.rowcount > 0`
DeleteEntry ==
    /\ \E id \in 1..MaxRows :
          LET found == repo.rows[id] # None
          IN  repo' = [repo EXCEPT
                         !.rows[id] = None,
                         !.written[id] = IF found THEN None ELSE @,
                         !.deleted = IF found THEN @ \cup {id} ELSE @,
                         !.last = Called("delete", Some(id), Some(found),
                                         FALSE, ~found)]
    /\ UNCHANGED <<entry, pc, force, pre, calls, cache, combined, nCalls,
                   hist, nGen, workers, seg>>

RepoNext == CreateEntry \/ UpdateEntry \/ GetEntryById \/ DeleteEntry

RepoSpec == GenInit /\ [][RepoNext]_vars

\* C27: after create_entry or update_entry returns, get_entry_by_id for
\* that id returns the field values just written; after delete_entry
\* returns True, get_entry_by_id for that id returns None; delete_entry of
\* an id that does not exist returns False and changes no stored entry.
C27_ReadAfterWrite ==
    /\ repo.last.op = "get"
          => /\ repo.written[repo.last.id[1]] # None
                   => repo.last.result = repo.written[repo.last.id[1]]
             /\ repo.last.id[1] \in repo.deleted => repo.last.result = None
    /\ (repo.last.op = "delete" /\ repo.last.result = Some(FALSE))
          => repo.last.untouched

====
